---- MODULE Spec2Model ----
(***************************************************************************)
(* Model of the container-backed node lifecycle driver                     *)
(* (deployment/dockerdeploy/controller.go).                                *)
(*                                                                         *)
(* The backend (the container runtime) is a map from container identifiers *)
(* to containers; the controller's operations are run by callers, one      *)
(* backend call per step, so that the calls of concurrent operations       *)
(* interleave as the runtime lets them.                                    *)
(***************************************************************************)
EXTENDS Integers, Sequences, FiniteSets, TLC

VARIABLES
    containers,   \* backend: container id -> container (status, labels, files, rules)
    netCfg,       \* backend: the IPAM blocks of the shared network
    nextCid,      \* backend: the next container id ContainerCreate hands out
    nextUuid,     \* uuid.NewString(): the next fresh node identifier
    pc,           \* caller -> the step its operation is at
    cur,          \* caller -> the operation in progress (arguments and locals)
    hist          \* caller -> the operations it completed, with their results

vars == <<containers, netCfg, nextCid, nextUuid, pc, cur, hist>>

(***************************************************************************)
(* Bounds                                                                  *)
(***************************************************************************)
MaxContainers == 3
MaxOps == 2
MaxConcOps == 1
MaxTime == 2

CIDs == 1..MaxContainers
\* What the wall clock may show when time.Now() reads it.
ClockReadings == 1..MaxTime
Purposes == {"test"}
ClusterIDs == {"", "cl"}
Durations == {1, 2}

(***************************************************************************)
(* Time values (time.Time) and their JSON encoding                         *)
(***************************************************************************)
\* time.Time{}: the zero time, before every clock reading (the clock starts at 1).
ZeroTime == [sec |-> 0, nsec |-> 0, mono |-> FALSE, off |-> 0]

\* time.Now() when the clock shows t: the instant (with its nanoseconds), a
\* monotonic reading, the local zone (one hour east).
TimeNow(t) == [sec |-> t, nsec |-> 7, mono |-> TRUE, off |-> 3600]

\* The time values a caller may hand to WriteNodeState: a reading of the clock;
\* a time in UTC; a time in a zone west of UTC; and a time in a zone whose
\* offset is no whole number of minutes (90 seconds).
TimeValues ==
    {TimeNow(t) : t \in ClockReadings}
        \cup {[sec |-> 1, nsec |-> 0, mono |-> FALSE, off |-> 0],
              [sec |-> 2, nsec |-> 7, mono |-> TRUE, off |-> -3600],
              [sec |-> 1, nsec |-> 7, mono |-> FALSE, off |-> 90]}

\* Time.Add(d)
TimeAdd(t, d) == [t EXCEPT !.sec = @ + d]

\* Time.Equal: the same instant, whatever the zone or the monotonic reading.
TimeEqual(a, b) == a.sec = b.sec /\ a.nsec = b.nsec

\* json.Marshal of a time.Time: RFC 3339 with nanoseconds. The wall clock fields
\* are those of the zone, the zone is printed in hours and minutes (its seconds
\* are dropped), the monotonic reading is not printed.
ZoneMinutes(off) == IF off >= 0 THEN off \div 60 ELSE -((-off) \div 60)
MarshalTimeNoNanos(t) == [wall |-> t.sec + t.off, frac |-> 0, zone |-> ZoneMinutes(t.off) * 60]
MarshalTime(t) == [wall |-> t.sec + t.off, frac |-> t.nsec, zone |-> ZoneMinutes(t.off) * 60]

\* json.Unmarshal into a time.Time: the instant is the wall clock less the
\* printed zone; there is no monotonic reading.
UnmarshalTime(j) == [sec |-> j.wall - j.zone, nsec |-> j.frac, mono |-> FALSE, off |-> j.zone]

(***************************************************************************)
(* Containers                                                              *)
(***************************************************************************)
NoLabels ==
    [cluster_id |-> "", node_id |-> "", node_name |-> "", creator |-> "",
     purpose |-> "", initial_server_version |-> ""]

NoFiles == <<>>

Absent ==
    [status |-> "absent", labels |-> NoLabels, autoRemove |-> FALSE, hasNet |-> FALSE,
     fs |-> NoFiles, rules |-> <<>>, tool |-> FALSE]

Exists(c) == containers[c].status # "absent"

\* A container's file system: path -> entry. Paths are sequences of names.
DirEntry == [type |-> "dir", data |-> MarshalTime(ZeroTime)]
FileEntry(d) == [type |-> "file", data |-> d]

IsPrefix(p, q) == Len(p) <= Len(q) /\ SubSeq(q, 1, Len(p)) = p
Prefixes(p) == {SubSeq(p, 1, n) : n \in 1..Len(p)}

StateFileName == <<"cbdyncluster", "state">>
StateCopyToPath == <<"var">>
StateCopyFromPath == <<"var", "cbdyncluster">>

\* CopyToContainer: the archive's entries are unpacked under dst, the missing
\* parent directories made.
Unpack(fs, dst, archive) ==
    LET files == {dst \o e.name : e \in archive}
        dirs == UNION {Prefixes(f) \ {f} : f \in files}
        data(f) == (CHOOSE e \in archive : dst \o e.name = f).data
    IN [p \in (DOMAIN fs) \cup dirs \cup files |->
          IF p \in files THEN FileEntry(data(p))
          ELSE IF p \in DOMAIN fs THEN fs[p]
          ELSE DirEntry]

\* CopyFromContainer: the subtree at src as an archive, the names relative to
\* the parent of src.
Pack(fs, src) ==
    {[name |-> SubSeq(p, Len(src), Len(p)), type |-> fs[p].type, data |-> fs[p].data] :
        p \in {q \in DOMAIN fs : IsPrefix(src, q)}}

(***************************************************************************)
(* NodeStateStore: WriteNodeState / ReadNodeState                          *)
(***************************************************************************)
NoState == [present |-> FALSE, Expiry |-> ZeroTime]
SomeState(t) == [present |-> TRUE, Expiry |-> t]

\* The archive WriteNodeState builds: one entry, the JSON of the state.
StateArchive(state) == {[name |-> StateFileName, data |-> MarshalTime(state.Expiry)]}

\* The container's files after WriteNodeState's CopyToContainer succeeded.
WriteNodeStateFs(fs, state) == Unpack(fs, StateCopyToPath, StateArchive(state))

\* CopyToContainer / CopyFromContainer reach a container that exists.
Reachable(cont) == cont.status # "absent"

\* ReadNodeState on a container: the copy fails when the container cannot be
\* reached or the path does not exist in it; otherwise the archive is scanned
\* for the state entry, and no entry means no state (nil, nil).
ReadNodeState(cont, reach) ==
    IF ~reach \/ ~Reachable(cont) \/ StateCopyFromPath \notin DOMAIN cont.fs
    THEN [err |-> "failed to read dyncluster node state", state |-> NoState]
    ELSE LET hits == {e \in Pack(cont.fs, StateCopyFromPath) : e.name = StateFileName}
         IN IF hits = {}
            THEN [err |-> "", state |-> NoState]
            ELSE [err |-> "", state |-> SomeState(UnmarshalTime((CHOOSE e \in hits : TRUE).data))]

(***************************************************************************)
(* ListNodes                                                               *)
(***************************************************************************)
NilNode ==
    [ContainerID |-> 0, NodeID |-> "", ClusterID |-> "", Name |-> "", Creator |-> "",
     Owner |-> "", Purpose |-> "", Expiry |-> ZeroTime, IPAddress |-> 0,
     InitialServerVersion |-> ""]

\* The address of a container on the shared network: assigned while it runs.
IPAddressOf(c, cont) == IF cont.status = "running" THEN c ELSE 0

\* parseContainerInfo: nil for a container without the cluster-id label;
\* otherwise the last of its networks is dereferenced, which panics when the
\* container is attached to none.
NodeOfContainer(c, cont) ==
    [ContainerID |-> c,
     NodeID |-> cont.labels.node_id,
     ClusterID |-> cont.labels.cluster_id,
     Name |-> cont.labels.node_name,
     Creator |-> cont.labels.creator,
     Owner |-> "",
     Purpose |-> cont.labels.purpose,
     Expiry |-> ZeroTime,
     IPAddress |-> IPAddressOf(c, cont),
     InitialServerVersion |-> cont.labels.initial_server_version]

parseContainerInfoAnyLabel(c, cont) ==
    [nil |-> FALSE, panic |-> ~cont.hasNet, node |-> NodeOfContainer(c, cont)]

parseContainerInfo(c, cont) ==
    IF cont.labels.cluster_id = ""
    THEN [nil |-> TRUE, panic |-> FALSE, node |-> NilNode]
    ELSE [nil |-> FALSE, panic |-> ~cont.hasNet, node |-> NodeOfContainer(c, cont)]

\* ContainerList with All: every container the backend holds, in any status.
ContainerList(cs) == {c \in CIDs : cs[c].status # "absent"}

\* A container whose automatic removal is pending.
Vanishing(cs) == {c \in CIDs : cs[c].status = "exited" /\ cs[c].autoRemove}

\* The loop of ListNodes over the answer of ContainerList: each container is
\* parsed as the daemon described it when it answered, and the loop goes on
\* with those parseContainerInfo gives a node for. The answer has the
\* containers in an order of the daemon's choosing.
Labelled(cs) ==
    {e \in {parseContainerInfo(c, cs[c]) : c \in ContainerList(cs)} : ~e.nil}

\* ListNodes from its call to its first state read: the answer of
\* ContainerList is what the loop runs over, and no node is collected yet.
BeginListing(rec, cs) ==
    [rec EXCEPT !.todo = Labelled(cs), !.nodes = {}, !.unread = {}, !.listed = FALSE]

\* The node of a labelled container after its state was read: the expiry is
\* taken from a state that was read; the error of the read is dropped.
NodeWithStateNever(node, r) == node
NodeWithState(node, r) ==
    IF r.err = "" /\ r.state.present THEN [node EXCEPT !.Expiry = r.state.Expiry] ELSE node

\* One round of the loop, for the labelled container e of the answer: its
\* state is read from the container as it is now, and its node is appended.
ReadListed(rec, e, cs, reach) ==
    LET r == ReadNodeState(cs[e.node.ContainerID], reach)
    IN [rec EXCEPT !.todo = @ \ {e},
                   !.nodes = @ \cup {NodeWithState(e.node, r)},
                   !.unread = IF r.err = "" THEN @ ELSE @ \cup {e.node.ContainerID}]

(***************************************************************************)
(* Callers and their operations                                            *)
(***************************************************************************)
\* An operation: its arguments, then the locals of the function running it.
IdleOp ==
    [kind |-> "none",
     \* arguments
     cid |-> 0, purpose |-> "", cluster |-> "", dur |-> 0, blocked |-> FALSE,
     st |-> ZeroTime,
     \* locals and results
     nodeID |-> "", containerID |-> 0, deployTime |-> 0, expiry |-> ZeroTime, node |-> NilNode,
     listed |-> FALSE, nodes |-> {}, state |-> NoState, log |-> <<>>,
     \* the loop of ListNodes: the labelled containers whose state is still to
     \* be read, and those whose read returned an error
     todo |-> {}, unread |-> {},
     waited |-> FALSE, managedAtStart |-> {},
     gatewayIP |-> "", ipRange |-> "", phase |-> "", attempts |-> 0,
     \* installed: the call installed iptables in the node
     installed |-> FALSE,
     \* fault: a backend call of the operation was made to fail by the backend
     \* itself (an outage), not by the state the call found
     fault |-> FALSE,
     \* cancelled: the context the caller passed is done
     cancelled |-> FALSE, err |-> ""]

\* The callers of a run are those the initial state gives a program counter.
Callers == DOMAIN pc

NoCrash == \A q \in Callers : pc[q] # "crashed"

\* The containers a listing would report as nodes: those with a cluster id.
Managed(cs) == {c \in CIDs : cs[c].status # "absent" /\ cs[c].labels.cluster_id # ""}

\* uuid.NewString(): the n-th identifier drawn; no two are equal.
UuidFixed(n) == "u1"
Uuid(n) == <<"u1", "u2", "u3", "u4", "u5", "u6">>[n]

\* The operation of caller p returns: its record, with the error (or "" for
\* nil) goes to the caller's history.
Return(p, rec, err) ==
    /\ pc' = [pc EXCEPT ![p] = "idle"]
    /\ hist' = [hist EXCEPT ![p] = Append(@, [rec EXCEPT !.err = err])]
    /\ cur' = [cur EXCEPT ![p] = IdleOp]

\* A nil pointer dereference ends the whole program.
Crash(p, rec) ==
    /\ pc' = [pc EXCEPT ![p] = "crashed"]
    /\ cur' = [cur EXCEPT ![p] = [rec EXCEPT !.err = "panic"]]
    /\ UNCHANGED hist

Goto(p, rec, step) ==
    /\ pc' = [pc EXCEPT ![p] = step]
    /\ cur' = [cur EXCEPT ![p] = rec]
    /\ UNCHANGED hist

\* An operation of caller p begins. The history keeps in full the operation
\* that ended last; of those before it, only that they were made.
Begin(p, rec, step) ==
    /\ pc' = [pc EXCEPT ![p] = step]
    /\ cur' = [cur EXCEPT ![p] = rec]
    /\ hist' = [hist EXCEPT ![p] = [i \in DOMAIN @ |-> IF i < Len(@) THEN IdleOp ELSE @[i]]]

\* A lone caller runs up to MaxOps operations one after the other; concurrent
\* callers run up to MaxConcOps each.
Quota == IF Cardinality(Callers) = 1 THEN MaxOps ELSE MaxConcOps

CanCall(p) == NoCrash /\ pc[p] = "idle" /\ Len(hist[p]) < Quota

\* The outcomes of a backend call that is passed the caller's context: the
\* client gives up a call whose context is done, so it can only fail.
CtxOutcomesBackground(rec) == BOOLEAN
CtxOutcomes(rec) == IF rec.cancelled THEN {FALSE} ELSE BOOLEAN

\* The caller cancels the context of its running operation (or its deadline
\* passes).
CancelCtx(p) ==
    /\ NoCrash /\ pc[p] \notin {"idle", "crashed"}
    /\ ~cur[p].cancelled
    /\ cur' = [cur EXCEPT ![p].cancelled = TRUE]
    /\ UNCHANGED <<containers, netCfg, nextCid, nextUuid, pc, hist>>

(***************************************************************************)
(* DeployNode                                                              *)
(***************************************************************************)
\* The container DeployNode creates: the identifying labels, automatic removal
\* on exit, attached to the shared network.
NewContainer(def, nodeID) ==
    [status |-> "created",
     labels |-> [NoLabels EXCEPT !.cluster_id = def.cluster,
                                 !.purpose = def.purpose,
                                 !.node_id = nodeID,
                                 !.initial_server_version = "7.0.0"],
     autoRemove |-> TRUE, hasNet |-> TRUE, fs |-> NoFiles, rules |-> <<>>,
     tool |-> FALSE]

\* expiryTime := time.Now().Add(def.Expiry), the clock showing t.
ExpiryTimeNoDuration(t, dur) == TimeNow(t)
ExpiryTime(t, dur) == TimeAdd(TimeNow(t), dur)

\* The backend after a step of DeployNode failed: DeployNode returns the
\* error at once, and the container it created stays as the backend has it.
AfterFailedStepRemoved(cs, c) == [cs EXCEPT ![c] = Absent]
AfterFailedStep(cs, c) == cs

\* DeployNode is called: a fresh node identifier is generated.
CallDeployNode(p) ==
    /\ CanCall(p)
    /\ nextUuid <= MaxContainers
    /\ \E purpose \in Purposes, cluster \in ClusterIDs, dur \in Durations :
         Begin(p, [IdleOp EXCEPT !.kind = "DeployNode", !.purpose = purpose,
                                !.cluster = cluster, !.dur = dur,
                                !.nodeID = Uuid(nextUuid),
                                !.managedAtStart = Managed(containers)],
              "DeployCreate")
    /\ nextUuid' = nextUuid + 1
    /\ UNCHANGED <<containers, netCfg, nextCid>>

\* ContainerCreate
DeployCreate(p) ==
    /\ NoCrash /\ pc[p] = "DeployCreate"
    /\ \E ok \in BOOLEAN :
         IF ok /\ nextCid <= MaxContainers
         THEN /\ containers' = [containers EXCEPT ![nextCid] = NewContainer(cur[p], cur[p].nodeID)]
              /\ nextCid' = nextCid + 1
              /\ Goto(p, [cur[p] EXCEPT !.containerID = nextCid, !.log = Append(@, "created")],
                      "DeployStart")
         ELSE /\ Return(p, [cur[p] EXCEPT !.fault = ~ok], "failed to create container")
              /\ UNCHANGED <<containers, nextCid>>
    /\ UNCHANGED <<netCfg, nextUuid>>

\* ContainerStart
DeployStart(p) ==
    /\ NoCrash /\ pc[p] = "DeployStart"
    /\ LET c == cur[p].containerID IN
       \E ok \in BOOLEAN :
         IF ok /\ containers[c].status = "created"
         THEN /\ containers' = [containers EXCEPT ![c].status = "running"]
              /\ Goto(p, [cur[p] EXCEPT !.log = Append(@, "started")], "DeployWrite")
         ELSE /\ Return(p, [cur[p] EXCEPT !.fault = ~ok], "failed to start container")
              /\ containers' = AfterFailedStep(containers, c)
    /\ UNCHANGED <<netCfg, nextCid, nextUuid>>

\* expiryTime := time.Now().Add(def.Expiry); WriteNodeState
DeployWrite(p) ==
    /\ NoCrash /\ pc[p] = "DeployWrite"
    /\ LET c == cur[p].containerID IN
       \E ok \in CtxOutcomes(cur[p]), t \in ClockReadings :
         LET expiryTime == ExpiryTime(t, cur[p].dur) IN
         IF ok /\ Reachable(containers[c])
         THEN /\ containers' = [containers EXCEPT
                    ![c].fs = WriteNodeStateFs(@, [Expiry |-> expiryTime])]
              /\ Goto(p, [cur[p] EXCEPT !.expiry = expiryTime,
                                        !.deployTime = t,
                                        !.log = Append(@, "persisted")],
                      "DeployList")
         ELSE /\ Return(p, [cur[p] EXCEPT !.fault = ~ok], "failed write node state")
              /\ containers' = AfterFailedStep(containers, c)
    /\ UNCHANGED <<netCfg, nextCid, nextUuid>>

\* The listing returned: the node of the new container is looked up in it.
DeployListed(p, rec) ==
    LET found == {n \in rec.nodes : n.ContainerID = rec.containerID}
        done == [rec EXCEPT !.listed = TRUE]
    IN IF found = {} THEN Return(p, done, "failed to find newly created container")
       ELSE Goto(p, [done EXCEPT !.node = CHOOSE n \in found : TRUE,
                                 !.log = Append(@, "listed")],
                 "DeployWait")

\* allNodes := ListNodes(ctx), as far as its first state read: ContainerList.
DeployList(p) ==
    /\ NoCrash /\ pc[p] = "DeployList"
    /\ \E listOk \in CtxOutcomes(cur[p]) :
         LET rec == BeginListing(cur[p], containers)
         IN IF ~listOk THEN Return(p, [cur[p] EXCEPT !.fault = TRUE], "failed to list nodes")
            ELSE IF rec.todo = {} THEN DeployListed(p, rec)
            ELSE Goto(p, rec, "DeployRead")
    /\ containers' = IF pc'[p] = "idle"
                     THEN AfterFailedStep(containers, cur[p].containerID)
                     ELSE containers
    /\ UNCHANGED <<netCfg, nextCid, nextUuid>>

\* The loop of that listing reaches a labelled container: its networks are
\* dereferenced (a panic when it has none) and its state is read; after the
\* last one the listing returns.
DeployRead(p) ==
    /\ NoCrash /\ pc[p] = "DeployRead"
    /\ \E e \in cur[p].todo, reach \in CtxOutcomes(cur[p]) :
         LET rec == ReadListed(cur[p], e, containers, reach)
         IN IF e.panic THEN Crash(p, cur[p])
            ELSE IF rec.todo = {} THEN DeployListed(p, rec)
            ELSE Goto(p, rec, "DeployRead")
    /\ containers' = IF pc'[p] = "idle"
                     THEN AfterFailedStep(containers, cur[p].containerID)
                     ELSE containers
    /\ UNCHANGED <<netCfg, nextCid, nextUuid>>

\* The error DeployNode returns after the readiness wait.
ReadinessErrorIgnored(healthy) == ""
ReadinessError(healthy) == IF healthy THEN "" ELSE "failed to wait for node readiness"

\* clustercontrol.NodeManager.WaitForOnline: the node reports healthy only
\* while it runs; the wait ends with an error once the context is done.
WaitForOnlineIgnoringCtx(rec, cont, ok) == ok /\ cont.status = "running"
WaitForOnline(rec, cont, ok) == ok /\ ~rec.cancelled /\ cont.status = "running"

\* clusterCtrl.WaitForOnline(ctx) and the return of DeployNode.
DeployWait(p) ==
    /\ NoCrash /\ pc[p] = "DeployWait"
    /\ \E ok \in BOOLEAN :
         LET healthy == WaitForOnline(cur[p], containers[cur[p].containerID], ok)
             err == ReadinessError(healthy)
         IN /\ Return(p, [cur[p] EXCEPT !.log = IF healthy THEN Append(@, "ready") ELSE @,
                                        !.node = IF err = "" THEN @ ELSE NilNode,
                                        !.fault = ~ok \/ cur[p].cancelled],
                      err)
            /\ containers' = IF err = "" THEN containers
                             ELSE AfterFailedStep(containers, cur[p].containerID)
    /\ UNCHANGED <<netCfg, nextCid, nextUuid>>

(***************************************************************************)
(* RemoveNode                                                              *)
(***************************************************************************)
CallRemoveNode(p) ==
    /\ CanCall(p)
    /\ \E c \in CIDs :
         Begin(p, [IdleOp EXCEPT !.kind = "RemoveNode", !.cid = c, !.containerID = c,
                                !.managedAtStart = Managed(containers)],
              "RemoveStop")
    /\ UNCHANGED <<containers, netCfg, nextCid, nextUuid>>

\* What ContainerStop answers for a container: an error when there is no such
\* container (or the backend fails); success when it runs (it is stopped) or is
\* already stopped.
ContainerStopOk(cont, ok) == ok /\ cont.status # "absent"

\* ContainerStop; its error ends RemoveNode.
RemoveStop(p) ==
    /\ NoCrash /\ pc[p] = "RemoveStop"
    /\ LET c == cur[p].containerID IN
       \E ok \in CtxOutcomes(cur[p]) :
         IF ContainerStopOk(containers[c], ok)
         THEN /\ containers' = [containers EXCEPT
                    ![c].status = IF @ = "running" THEN "exited" ELSE @]
              /\ Goto(p, [cur[p] EXCEPT !.log = Append(@, "stopped")], "RemoveRemove")
         ELSE /\ Return(p, [cur[p] EXCEPT !.fault = ~ok], "failed to stop container")
              /\ UNCHANGED containers
    /\ UNCHANGED <<netCfg, nextCid, nextUuid>>

\* ContainerRemove, its result ignored: a container that does not run is
\* removed, unless the backend refuses (its removal is already in progress).
RemoveRemove(p) ==
    /\ NoCrash /\ pc[p] = "RemoveRemove"
    /\ LET c == cur[p].containerID IN
       \E ok \in CtxOutcomes(cur[p]) :
         /\ containers' =
              IF ok /\ containers[c].status \in {"created", "exited"}
              THEN [containers EXCEPT ![c] = Absent]
              ELSE containers
         /\ Goto(p, [cur[p] EXCEPT !.log = Append(@, "remove requested")], "RemovePoll")
    /\ UNCHANGED <<netCfg, nextCid, nextUuid>>

\* Whether RemoveNode's wait goes on after a listing.
StillListedNever(nodes, containerID) == FALSE
StillListedAlways(nodes, containerID) == TRUE
StillListed(nodes, containerID) == \E n \in nodes : n.ContainerID = containerID

\* The listing of a round returned: RemoveNode returns when the container is
\* not among the nodes, and otherwise sleeps and starts another round.
RemoveListed(p, rec) ==
    LET done == [rec EXCEPT !.listed = TRUE]
    IN IF StillListed(rec.nodes, rec.containerID)
       THEN Goto(p, [done EXCEPT !.waited = TRUE], "RemovePoll")
       ELSE Return(p, done, "")

\* A round of the wait begins: ListNodes(ctx), as far as its first state read.
RemovePoll(p) ==
    /\ NoCrash /\ pc[p] = "RemovePoll"
    /\ \E listOk \in CtxOutcomes(cur[p]) :
         LET rec == BeginListing(cur[p], containers)
         IN IF ~listOk THEN Return(p, [cur[p] EXCEPT !.fault = TRUE], "failed to list nodes")
            ELSE IF rec.todo = {} THEN RemoveListed(p, rec)
            ELSE Goto(p, rec, "RemoveRead")
    /\ UNCHANGED <<containers, netCfg, nextCid, nextUuid>>

\* The loop of the round's listing reaches a labelled container.
RemoveRead(p) ==
    /\ NoCrash /\ pc[p] = "RemoveRead"
    /\ \E e \in cur[p].todo, reach \in CtxOutcomes(cur[p]) :
         LET rec == ReadListed(cur[p], e, containers, reach)
         IN IF e.panic THEN Crash(p, cur[p])
            ELSE IF rec.todo = {} THEN RemoveListed(p, rec)
            ELSE Goto(p, rec, "RemoveRead")
    /\ UNCHANGED <<containers, netCfg, nextCid, nextUuid>>

(***************************************************************************)
(* ListNodes, called by a caller                                           *)
(***************************************************************************)
CallListNodes(p) ==
    /\ CanCall(p)
    /\ Begin(p, [IdleOp EXCEPT !.kind = "ListNodes", !.managedAtStart = Managed(containers)], "ListNodes")
    /\ UNCHANGED <<containers, netCfg, nextCid, nextUuid>>

\* return nodes, nil
ListReturns(p, rec) == Return(p, [rec EXCEPT !.listed = TRUE], "")

\* ListNodes as far as its first state read: ContainerList.
DoListNodes(p) ==
    /\ NoCrash /\ pc[p] = "ListNodes"
    /\ \E listOk \in CtxOutcomes(cur[p]) :
         LET rec == BeginListing(cur[p], containers)
         IN IF ~listOk THEN Return(p, [cur[p] EXCEPT !.fault = TRUE], "failed to list containers")
            ELSE IF rec.todo = {} THEN ListReturns(p, rec)
            ELSE Goto(p, rec, "ListRead")
    /\ UNCHANGED <<containers, netCfg, nextCid, nextUuid>>

\* The loop of ListNodes reaches a labelled container; after the last one
\* ListNodes returns the nodes.
ListRead(p) ==
    /\ NoCrash /\ pc[p] = "ListRead"
    /\ \E e \in cur[p].todo, reach \in CtxOutcomes(cur[p]) :
         LET rec == ReadListed(cur[p], e, containers, reach)
         IN IF e.panic THEN Crash(p, cur[p])
            ELSE IF rec.todo = {} THEN ListReturns(p, rec)
            ELSE Goto(p, rec, "ListRead")
    /\ UNCHANGED <<containers, netCfg, nextCid, nextUuid>>

(***************************************************************************)
(* SetTrafficControl                                                       *)
(***************************************************************************)
\* The addresses a rule's source stands for: the subnet holds the gateway and
\* the nodes, the allocation range the nodes only; any other source is one
\* address.
AddrsOf(src) ==
    CASE src = "subnet" -> {"gw", "peer1", "peer2"}
      [] src = "iprange" -> {"peer1"}
      [] OTHER -> {src}

\* The verdict of the INPUT chain on a packet from addr: the target of the first
\* rule that matches, the chain's policy (ACCEPT) when none does.
RECURSIVE Verdict(_, _)
Verdict(rules, addr) ==
    IF rules = <<>> THEN "ACCEPT"
    ELSE IF addr \in AddrsOf(Head(rules).src) THEN Head(rules).target
    ELSE Verdict(Tail(rules), addr)

\* iptables -F; iptables -I INPUT ... (the rule goes to the head of the chain)
FlushNothing(rules) == rules
FlushRules(rules) == <<>>
AppendRule(rules, r) == rules \o <<r>>
InsertRule(rules, r) == <<r>> \o rules

\* The effect of one iptables command on the chain.
RunIptables(rules, args) ==
    CASE args[1] = "-F" -> FlushRules(rules)
      [] args[1] = "-I" -> InsertRule(rules, [chain |-> args[2], src |-> args[4], target |-> args[6]])
      [] OTHER -> rules

\* The arguments of the command SetTrafficControl runs in each of its phases.
IptablesArgs(rec) ==
    CASE rec.phase = "clear" -> <<"-F">>
      [] rec.phase = "drop" -> <<"-I", "INPUT", "-s", rec.ipRange, "-j", "DROP">>
      [] rec.phase = "accept" -> <<"-I", "INPUT", "-s", rec.gatewayIP, "-j", "ACCEPT">>
      [] rec.phase = "print" -> <<"-S">>

\* The phase after a command succeeded.
NextPhaseAlwaysBlock(phase, blocked) ==
    CASE phase = "clear" -> "drop"
      [] phase = "drop" -> "accept"
      [] phase = "accept" -> "print"
      [] phase = "print" -> "done"
NextPhase(phase, blocked) ==
    CASE phase = "clear" -> IF blocked THEN "drop" ELSE "print"
      [] phase = "drop" -> "accept"
      [] phase = "accept" -> "print"
      [] phase = "print" -> "done"

\* The container after an iptables command ran in it: the command changes the
\* chain and nothing else. ExecIptablesRecording would also write a state
\* file.
ExecIptablesRecording(cont, args) ==
    [cont EXCEPT !.rules = RunIptables(@, args),
                 !.fs = WriteNodeStateFs(@, [Expiry |-> ZeroTime])]
ExecIptables(cont, args) == [cont EXCEPT !.rules = RunIptables(@, args)]

\* A command can be executed in a container that runs; iptables only where the
\* tool is installed.
ExecRuns(cont, ok) == ok /\ cont.status = "running"
IptablesRuns(cont, ok) == ExecRuns(cont, ok) /\ cont.tool

\* SetTrafficControl is called. CallSetTrafficControlFlushing would clear the
\* chain before the addresses are resolved.
CallSetTrafficControlFlushing(p) ==
    /\ CanCall(p)
    /\ \E c \in CIDs, blocked \in BOOLEAN :
         /\ Begin(p, [IdleOp EXCEPT !.kind = "SetTrafficControl", !.cid = c,
                                   !.containerID = c, !.blocked = blocked],
                 "NetworkInspect")
         /\ containers' = [containers EXCEPT ![c].rules = FlushRules(@)]
    /\ UNCHANGED <<netCfg, nextCid, nextUuid>>

CallSetTrafficControl(p) ==
    /\ CanCall(p)
    /\ \E c \in CIDs, blocked \in BOOLEAN :
         Begin(p, [IdleOp EXCEPT !.kind = "SetTrafficControl", !.cid = c,
                                !.containerID = c, !.blocked = blocked],
              "NetworkInspect")
    /\ UNCHANGED <<containers, netCfg, nextCid, nextUuid>>

\* NetworkInspect, and the gateway and range taken from the first IPAM block.
TcNetworkInspect(p) ==
    /\ NoCrash /\ pc[p] = "NetworkInspect"
    /\ \E ok \in BOOLEAN :
         IF ~ok THEN Return(p, [cur[p] EXCEPT !.fault = TRUE], "failed to inspect network")
         ELSE IF Len(netCfg) < 1
         THEN Return(p, cur[p], "more than one ipam config, cannot identify node subnet")
         ELSE LET ipamConfig == netCfg[1]
                  gatewayIP == ipamConfig.Gateway
                  ipRange == IF ipamConfig.IPRange # "" THEN ipamConfig.IPRange
                             ELSE ipamConfig.Subnet
              IN IF ipRange = "" \/ gatewayIP = ""
                 THEN Return(p, cur[p], "failed to identify subnet or gateway ip")
                 ELSE Goto(p, [cur[p] EXCEPT !.gatewayIP = gatewayIP, !.ipRange = ipRange,
                                             !.phase = "clear"],
                           "Iptables")
    /\ UNCHANGED <<containers, netCfg, nextCid, nextUuid>>

\* execIptables succeeded: SetTrafficControl goes on to its next command, or
\* returns.
AfterIptables(p, rec) ==
    LET next == NextPhase(rec.phase, rec.blocked)
        done == [rec EXCEPT !.log = Append(@, rec.phase), !.attempts = 0]
    IN IF next = "done" THEN Return(p, done, "")
       ELSE Goto(p, [done EXCEPT !.phase = next], "Iptables")

\* execIptables failed: the error ends SetTrafficControl, except in the last
\* phase (printing the rules), where it is only logged. IptablesFailedRetry
\* would install and try again instead.
IptablesFailedRetry(p, rec) == Goto(p, rec, "AptUpdate")

\* execIptables failed: the error ends SetTrafficControl, except in the last
\* phase (printing the rules), where it is only logged.
IptablesFailed(p, rec) ==
    CASE rec.phase = "clear" -> Return(p, rec, "failed to clear iptables")
      [] rec.phase \in {"drop", "accept"} -> Return(p, rec, "failed to create iptables rule")
      [] rec.phase = "print" -> Return(p, rec, "")

\* execIptables: the first attempt of the command; when it fails, iptables is
\* installed.
Iptables(p) ==
    /\ NoCrash /\ pc[p] = "Iptables"
    /\ LET c == cur[p].containerID
           rec == [cur[p] EXCEPT !.attempts = @ + 1]
       IN \E ok \in BOOLEAN :
            IF IptablesRuns(containers[c], ok)
            THEN /\ containers' = [containers EXCEPT
                       ![c] = ExecIptables(@, IptablesArgs(cur[p]))]
                 /\ AfterIptables(p, rec)
            ELSE /\ Goto(p, [rec EXCEPT !.fault = @ \/ ~ok], "AptUpdate")
                 /\ UNCHANGED containers
    /\ UNCHANGED <<netCfg, nextCid, nextUuid>>

\* apt-get update
AptUpdate(p) ==
    /\ NoCrash /\ pc[p] = "AptUpdate"
    /\ \E ok \in BOOLEAN :
         IF ExecRuns(containers[cur[p].containerID], ok)
         THEN Goto(p, cur[p], "AptInstall")
         ELSE IptablesFailed(p, [cur[p] EXCEPT !.fault = @ \/ ~ok])
    /\ UNCHANGED <<containers, netCfg, nextCid, nextUuid>>

\* apt-get -y install iptables
AptInstall(p) ==
    /\ NoCrash /\ pc[p] = "AptInstall"
    /\ LET c == cur[p].containerID IN
       \E ok \in BOOLEAN :
         IF ExecRuns(containers[c], ok)
         THEN /\ containers' = [containers EXCEPT ![c].tool = TRUE]
              /\ Goto(p, [cur[p] EXCEPT !.installed = TRUE], "IptablesAgain")
         ELSE /\ IptablesFailed(p, [cur[p] EXCEPT !.fault = @ \/ ~ok])
              /\ UNCHANGED containers
    /\ UNCHANGED <<netCfg, nextCid, nextUuid>>

\* execIptables: the command again, after the installation.
IptablesAgain(p) ==
    /\ NoCrash /\ pc[p] = "IptablesAgain"
    /\ LET c == cur[p].containerID
           rec == [cur[p] EXCEPT !.attempts = @ + 1]
       IN \E ok \in BOOLEAN :
            IF IptablesRuns(containers[c], ok)
            THEN /\ containers' = [containers EXCEPT
                       ![c] = ExecIptables(@, IptablesArgs(cur[p]))]
                 /\ AfterIptables(p, rec)
            ELSE /\ IptablesFailed(p, [rec EXCEPT !.fault = @ \/ ~ok])
                 /\ UNCHANGED containers
    /\ UNCHANGED <<netCfg, nextCid, nextUuid>>

(***************************************************************************)
(* WriteNodeState and ReadNodeState, called by a caller                    *)
(***************************************************************************)
CallWriteNodeState(p) ==
    /\ CanCall(p)
    /\ \E c \in CIDs, t \in TimeValues :
         Begin(p, [IdleOp EXCEPT !.kind = "WriteNodeState", !.cid = c, !.containerID = c,
                                !.st = t],
              "WriteNodeState")
    /\ UNCHANGED <<containers, netCfg, nextCid, nextUuid>>

\* The state is marshalled, archived and copied into the container.
DoWriteNodeState(p) ==
    /\ NoCrash /\ pc[p] = "WriteNodeState"
    /\ LET c == cur[p].containerID IN
       \E ok \in BOOLEAN :
         IF ok /\ Reachable(containers[c])
         THEN /\ containers' = [containers EXCEPT
                    ![c].fs = WriteNodeStateFs(@, [Expiry |-> cur[p].st])]
              /\ Return(p, cur[p], "")
         ELSE /\ Return(p, [cur[p] EXCEPT !.fault = ~ok],
                        "failed to write dyncluster node state")
              /\ UNCHANGED containers
    /\ UNCHANGED <<netCfg, nextCid, nextUuid>>

CallReadNodeState(p) ==
    /\ CanCall(p)
    /\ \E c \in CIDs :
         Begin(p, [IdleOp EXCEPT !.kind = "ReadNodeState", !.cid = c, !.containerID = c],
              "ReadNodeState")
    /\ UNCHANGED <<containers, netCfg, nextCid, nextUuid>>

DoReadNodeState(p) ==
    /\ NoCrash /\ pc[p] = "ReadNodeState"
    /\ \E reach \in BOOLEAN :
         LET r == ReadNodeState(containers[cur[p].containerID], reach)
         IN Return(p, [cur[p] EXCEPT !.state = r.state, !.fault = ~reach], r.err)
    /\ UNCHANGED <<containers, netCfg, nextCid, nextUuid>>

(***************************************************************************)
(* The backend                                                             *)
(***************************************************************************)
\* The runtime removes, in its own time, a stopped container created with
\* AutoRemove.
BackendAutoRemove(c) ==
    /\ containers[c].status = "exited" /\ containers[c].autoRemove
    /\ containers' = [containers EXCEPT ![c] = Absent]
    /\ UNCHANGED <<netCfg, nextCid, nextUuid, pc, cur, hist>>

(***************************************************************************)
(* Initial states                                                          *)
(***************************************************************************)
\* A network with one IPAM block, as `docker network create` makes it.
DefaultIPAM == <<[Gateway |-> "gw", Subnet |-> "subnet", IPRange |-> ""]>>

\* Containers the backend may hold that no DeployNode of this run created.
Running(labels, net) ==
    [Absent EXCEPT !.status = "running", !.labels = labels, !.hasNet = net]

PreExisting ==
    [none |-> Absent,
     \* a container of someone else: no labels
     foreign |-> Running(NoLabels, TRUE),
     \* a cluster id and nothing else
     partial |-> Running([NoLabels EXCEPT !.cluster_id = "old"], TRUE),
     \* a node an earlier DeployNode left running, its expiry persisted
     node |-> [NewContainer([cluster |-> "old", purpose |-> "test"], "u0") EXCEPT
                 !.status = "running",
                 !.fs = WriteNodeStateFs(NoFiles, [Expiry |-> TimeAdd(TimeNow(1), 1)])],
     \* a labelled container attached to no network
     nonet |-> Running([NoLabels EXCEPT !.cluster_id = "old", !.node_id = "u0"], FALSE)]

InitCallers(ps) ==
    /\ pc = [p \in ps |-> "idle"]
    /\ cur = [p \in ps |-> IdleOp]
    /\ hist = [p \in ps |-> <<>>]

Init ==
    /\ \E k \in DOMAIN PreExisting :
         /\ containers = [c \in CIDs |-> IF c = 1 THEN PreExisting[k] ELSE Absent]
         /\ nextCid = IF k = "none" THEN 1 ELSE 2
    /\ netCfg = DefaultIPAM
    /\ nextUuid = 1
    /\ InitCallers({"c1"})

Next ==
    \/ \E p \in Callers :
         \/ CallDeployNode(p) \/ DeployCreate(p) \/ DeployStart(p) \/ DeployWrite(p)
         \/ DeployList(p) \/ DeployRead(p) \/ DeployWait(p)
         \/ CallRemoveNode(p) \/ RemoveStop(p) \/ RemoveRemove(p)
         \/ RemovePoll(p) \/ RemoveRead(p)
         \/ CallListNodes(p) \/ DoListNodes(p) \/ ListRead(p)
    \/ \E c \in CIDs : BackendAutoRemove(c)

Spec == Init /\ [][Next]_vars

(***************************************************************************)
(* Traffic control on a deployed node: the shared network is any the        *)
(* backend may report, the node may or may not hold the iptables tool, and  *)
(* its chain may hold a rule someone else put there.                        *)
(***************************************************************************)
IPAMBlocks ==
    {[Gateway |-> g, Subnet |-> sn, IPRange |-> r] :
        g \in {"", "gw"}, sn \in {"", "subnet"}, r \in {"", "iprange"}}

NetCfgs ==
    {<<>>} \cup {<<b>> : b \in IPAMBlocks}
           \cup {<<DefaultIPAM[1], [Gateway |-> "gw2", Subnet |-> "subnet2", IPRange |-> ""]>>}

StaleRules == {<<>>, <<[chain |-> "INPUT", src |-> "ext", target |-> "DROP"]>>}

InitTraffic ==
    /\ \E tool \in BOOLEAN, stale \in StaleRules :
         containers = [c \in CIDs |->
              IF c = 1 THEN [PreExisting["node"] EXCEPT !.tool = tool, !.rules = stale]
              ELSE Absent]
    /\ netCfg \in NetCfgs
    /\ nextCid = 2
    /\ nextUuid = 1
    /\ InitCallers({"c1"})

NextTraffic ==
    \E p \in Callers :
        \/ CallSetTrafficControl(p) \/ TcNetworkInspect(p)
        \/ Iptables(p) \/ AptUpdate(p) \/ AptInstall(p) \/ IptablesAgain(p)

SpecTraffic == InitTraffic /\ [][NextTraffic]_vars

(***************************************************************************)
(* Properties of the node lifecycle (specification Spec)                   *)
(***************************************************************************)
\* The operations a caller completed, and the pairs it ran back to back.
Done(p) == {hist[p][i] : i \in 1..Len(hist[p])}
BackToBack(p) == {<<hist[p][i], hist[p][i + 1]>> : i \in 1..(Len(hist[p]) - 1)}
\* Every operation record: completed or in progress.
Records == UNION {Done(p) \cup {cur[p]} : p \in Callers}

\* Caller p takes a step of its operation, and the operation's record after
\* the step.
Steps(p) == <<pc[p], cur[p]>>' # <<pc[p], cur[p]>>
After(p) == IF pc'[p] = "idle" THEN hist'[p][Len(hist'[p])] ELSE cur'[p]

DeploySteps == <<"created", "started", "persisted", "listed", "ready">>

\* C1: starting with no managed node, after DeployNode(P, D) succeeded the
\* ListNodes that follows it returns exactly one node; its purpose is P and its
\* expiry is the instant the clock showed at the deployment plus D.
C1_DeployThenList ==
    \A p \in Callers : \A pair \in BackToBack(p) :
        LET d == pair[1]
            l == pair[2]
        IN (/\ d.kind = "DeployNode" /\ d.err = "" /\ d.managedAtStart = {}
            /\ l.kind = "ListNodes" /\ l.err = "")
           => /\ Cardinality(l.nodes) = 1
              /\ \A n \in l.nodes :
                   /\ n.Purpose = d.purpose
                   /\ n.Expiry.sec = d.deployTime + d.dur
                   /\ n.Expiry.nsec = TimeNow(d.deployTime).nsec
                   /\ n.ContainerID = d.containerID

\* C1, amended: the same, for a ListNodes whose read of the node's state
\* returned no error; a listing whose read failed returns the one node, with
\* purpose P and the zero expiry.
C1_DeployThenListRead ==
    \A p \in Callers : \A pair \in BackToBack(p) :
        LET d == pair[1]
            l == pair[2]
        IN (/\ d.kind = "DeployNode" /\ d.err = "" /\ d.managedAtStart = {}
            /\ l.kind = "ListNodes" /\ l.err = "")
           => /\ Cardinality(l.nodes) = 1
              /\ \A n \in l.nodes :
                   /\ n.Purpose = d.purpose
                   /\ n.ContainerID = d.containerID
                   /\ l.unread = {} =>
                        /\ n.Expiry.sec = d.deployTime + d.dur
                        /\ n.Expiry.nsec = TimeNow(d.deployTime).nsec
                   /\ l.unread # {} => n.Expiry = ZeroTime

C1_Witness ==
    \E p \in Callers : \E pair \in BackToBack(p) :
        /\ pair[1].kind = "DeployNode" /\ pair[1].err = "" /\ pair[1].managedAtStart = {}
        /\ pair[1].dur = 2 /\ pair[1].deployTime = 2
        /\ pair[2].kind = "ListNodes" /\ pair[2].err = "" /\ pair[2].unread = {}
        /\ containers[1].status = "running" /\ containers[2].status = "running"

\* C2: DeployNode returns a node only after, in this order, the container was
\* created, started, its state persisted, and the readiness wait reported
\* healthy; at every moment the steps done so far are an initial part of that
\* order, so no step runs before its predecessor succeeded.
C2_DeployOrder ==
    \A r \in Records :
        r.kind = "DeployNode" =>
            /\ Len(r.log) <= Len(DeploySteps)
            /\ r.log = SubSeq(DeploySteps, 1, Len(r.log))
            /\ (r \in UNION {Done(p) : p \in Callers} /\ r.err = "")
                 => (r.log = DeploySteps /\ r.node # NilNode)

C2_Witness ==
    \E p \in Callers : \E r \in Done(p) :
        r.kind = "DeployNode" /\ r.err = "" /\ r.log = DeploySteps

\* C3: no node of any listing ListNodes returned has an empty cluster id, and
\* no container without the label is among the listed nodes.
C3_ListedHaveClusterID ==
    \A r \in Records : \A n \in r.nodes :
        /\ n.ClusterID # ""
        /\ Exists(n.ContainerID) => containers[n.ContainerID].labels.cluster_id # ""

C3_Witness ==
    \E p \in Callers : \E r \in Done(p) :
        /\ r.kind = "ListNodes" /\ r.err = "" /\ r.nodes # {}
        /\ \E c \in CIDs : Exists(c) /\ containers[c].labels.cluster_id = ""
                           /\ \A n \in r.nodes : n.ContainerID # c

\* C4: when RemoveNode returns success, the container is not among the nodes of
\* the last listing it took.
C4_RemovedNotListed ==
    \A p \in Callers : \A r \in Done(p) :
        (r.kind = "RemoveNode" /\ r.err = "")
            => (r.listed /\ \A n \in r.nodes : n.ContainerID # r.cid)

C4_Witness ==
    \E p \in Callers : \E r \in Done(p) :
        /\ r.kind = "RemoveNode" /\ r.err = "" /\ r.waited
        /\ r.cid \in r.managedAtStart

\* C5: RemoveNode of the same node twice in a row: when the first call returned
\* success, the second returns no error (unless the backend itself failed).
C5_RemoveTwice ==
    \A p \in Callers : \A pair \in BackToBack(p) :
        (/\ pair[1].kind = "RemoveNode" /\ pair[1].err = ""
         /\ pair[1].cid \in pair[1].managedAtStart
         /\ pair[2].kind = "RemoveNode" /\ pair[2].cid = pair[1].cid
         /\ ~pair[2].fault)
            => pair[2].err = ""

(***************************************************************************)
(* Properties of traffic control (specification SpecTraffic)               *)
(***************************************************************************)
\* The operation a caller completed last, when it runs none.
Last(p) == hist[p][Len(hist[p])]
Rests(p) == pc[p] = "idle" /\ hist[p] # <<>>

\* The gateway and the node-addressing range of the shared network: the range
\* is the block's IPRange when set, its Subnet otherwise.
Gateway == netCfg[1].Gateway
NodeRange == IF netCfg[1].IPRange # "" THEN netCfg[1].IPRange ELSE netCfg[1].Subnet

AcceptGateway == [chain |-> "INPUT", src |-> Gateway, target |-> "ACCEPT"]
DropRange == [chain |-> "INPUT", src |-> NodeRange, target |-> "DROP"]

\* C6: after a successful SetTrafficControl(id, true) the node's chain accepts
\* a packet from the gateway and drops a packet from every other address of
\* the node range; the gateway's ACCEPT rule stands before the range's DROP
\* rule.
C6_BlockedAcceptsGatewayDropsPeers ==
    \A p \in Callers :
        (Rests(p) /\ Last(p).kind = "SetTrafficControl" /\ Last(p).blocked
                  /\ Last(p).err = "")
        => LET rules == containers[Last(p).cid].rules IN
           /\ Verdict(rules, Gateway) = "ACCEPT"
           /\ \A a \in AddrsOf(NodeRange) \ {Gateway} : Verdict(rules, a) = "DROP"
           /\ \E i, j \in 1..Len(rules) :
                i < j /\ rules[i] = AcceptGateway /\ rules[j] = DropRange

C6_Witness ==
    \E p \in Callers :
        /\ Rests(p) /\ Last(p).kind = "SetTrafficControl" /\ Last(p).blocked
        /\ Last(p).err = ""
        /\ Gateway \in AddrsOf(NodeRange)
        /\ Verdict(containers[Last(p).cid].rules, "peer1") = "DROP"

\* C7: in every state, during a SetTrafficControl call and after it, failed or
\* not, every node's chain accepts a packet from the gateway.
C7_GatewayNeverCut ==
    \A c \in CIDs :
        (Exists(c) /\ Len(netCfg) >= 1 /\ Gateway # "")
            => Verdict(containers[c].rules, Gateway) = "ACCEPT"

\* C8: SetTrafficControl(id, true) and then a successful
\* SetTrafficControl(id, false) leave the node with the rule set of a node
\* SetTrafficControl was never called on: none.
C8_BlockThenUnblockIsClean ==
    \A p \in Callers : \A pair \in BackToBack(p) :
        (/\ Rests(p) /\ Last(p) = pair[2]
         /\ pair[1].kind = "SetTrafficControl" /\ pair[1].blocked
         /\ pair[2].kind = "SetTrafficControl" /\ ~pair[2].blocked
         /\ pair[2].cid = pair[1].cid /\ pair[2].err = "")
        => containers[pair[2].cid].rules = NewContainer(IdleOp, "").rules

C8_Witness ==
    \E p \in Callers : \E pair \in BackToBack(p) :
        /\ Rests(p) /\ Last(p) = pair[2]
        /\ pair[1].kind = "SetTrafficControl" /\ pair[1].blocked /\ pair[1].err = ""
        /\ pair[1].log = <<"clear", "drop", "accept", "print">>
        /\ pair[2].kind = "SetTrafficControl" /\ ~pair[2].blocked
        /\ pair[2].cid = pair[1].cid /\ pair[2].err = ""

\* C9: the rules a successful SetTrafficControl(id, b) leaves are those b, the
\* gateway and the range give, whatever the chain held before: the two rules
\* once when b, none otherwise.
C9_RulesDependOnlyOnArguments ==
    \A p \in Callers :
        (Rests(p) /\ Last(p).kind = "SetTrafficControl" /\ Last(p).err = "")
        => containers[Last(p).cid].rules =
             IF Last(p).blocked THEN <<AcceptGateway, DropRange>> ELSE <<>>

C9_Witness ==
    \E p \in Callers : \E pair \in BackToBack(p) :
        /\ Rests(p) /\ Last(p) = pair[2]
        /\ pair[1].kind = "SetTrafficControl" /\ pair[1].blocked /\ pair[1].err = ""
        /\ pair[2].kind = "SetTrafficControl" /\ pair[2].blocked /\ pair[2].err = ""
        /\ pair[2].cid = pair[1].cid
        /\ Len(containers[pair[2].cid].rules) = 2

(***************************************************************************)
(* The state store on its own: one container, in any of the conditions the  *)
(* store may find it in.                                                    *)
(***************************************************************************)
StoreContainers ==
    {PreExisting["node"],
     \* a node whose state was never written
     [PreExisting["node"] EXCEPT !.fs = NoFiles],
     \* the state directory exists and holds another file only
     [PreExisting["node"] EXCEPT !.fs =
         Unpack(NoFiles, StateCopyToPath,
                {[name |-> <<"cbdyncluster", "other">>, data |-> MarshalTime(ZeroTime)]})],
     \* a node that was stopped and awaits its removal
     [PreExisting["node"] EXCEPT !.status = "exited"]}

InitStore ==
    /\ \E cont \in StoreContainers :
         containers = [c \in CIDs |-> IF c = 1 THEN cont ELSE Absent]
    /\ netCfg = DefaultIPAM
    /\ nextCid = 2
    /\ nextUuid = 1
    /\ InitCallers({"c1"})

NextStore ==
    \/ \E p \in Callers :
         \/ CallWriteNodeState(p) \/ DoWriteNodeState(p)
         \/ CallReadNodeState(p) \/ DoReadNodeState(p)
    \/ \E c \in CIDs : BackendAutoRemove(c)

SpecStore == InitStore /\ [][NextStore]_vars

\* C10 as claimed: for every state s, the state ReadNodeState returns right
\* after a successful WriteNodeState(id, s) has the expiry of s (the same
\* instant).
C10_RoundTripEveryState ==
    \A p \in Callers : \A pair \in BackToBack(p) :
        (/\ pair[1].kind = "WriteNodeState" /\ pair[1].err = ""
         /\ pair[2].kind = "ReadNodeState" /\ pair[2].cid = pair[1].cid
         /\ pair[2].err = "")
        => /\ pair[2].state.present
           /\ TimeEqual(pair[2].state.Expiry, pair[1].st)

\* C10, amended: the same for every state s whose expiry is in a zone with an
\* offset of whole minutes; the instant is kept to the nanosecond, while the
\* monotonic reading of s is not.
C10_RoundTripWholeMinuteZones ==
    \A p \in Callers : \A pair \in BackToBack(p) :
        (/\ pair[1].kind = "WriteNodeState" /\ pair[1].err = ""
         /\ pair[1].st.off % 60 = 0
         /\ pair[2].kind = "ReadNodeState" /\ pair[2].cid = pair[1].cid
         /\ pair[2].err = "")
        => /\ pair[2].state.present
           /\ TimeEqual(pair[2].state.Expiry, pair[1].st)
           /\ ~pair[2].state.Expiry.mono

C10_Witness ==
    \E p \in Callers : \E pair \in BackToBack(p) :
        /\ pair[1].kind = "WriteNodeState" /\ pair[1].err = ""
        /\ pair[1].st.off = -3600 /\ pair[1].st.nsec = 7 /\ pair[1].st.mono
        /\ pair[2].kind = "ReadNodeState" /\ pair[2].cid = pair[1].cid
        /\ pair[2].err = "" /\ pair[2].state.present

\* C11: ReadNodeState on a reachable container on which no state was ever
\* written (neither the state directory nor the state entry exists in it)
\* returns no state and no error.
C11_NeverWrittenIsNoState ==
    \A p \in Callers :
        (/\ Rests(p) /\ Last(p).kind = "ReadNodeState" /\ ~Last(p).fault
         /\ containers[Last(p).cid].status = "running"
         /\ \A q \in Prefixes(StateCopyFromPath \o <<"state">>) :
                q \notin DOMAIN containers[Last(p).cid].fs)
        => (Last(p).err = "" /\ ~Last(p).state.present)

\* C12: ReadNodeState returns an error when the container cannot be reached,
\* and what it returns then differs from what it returns for a reachable
\* container that has no persisted state.
C12_UnreachableIsDistinctError ==
    \A p \in Callers : \A pair \in BackToBack(p) :
        LET c == containers[pair[1].cid] IN
        (/\ Rests(p) /\ Last(p) = pair[2]
         /\ pair[1].kind = "ReadNodeState" /\ ~pair[1].fault
         /\ c.status = "running" /\ (StateCopyFromPath \o <<"state">>) \notin DOMAIN c.fs
         /\ pair[2].kind = "ReadNodeState" /\ pair[2].fault)
        => /\ pair[2].err # ""
           /\ <<pair[2].err, pair[2].state>> # <<pair[1].err, pair[1].state>>

(***************************************************************************)
(* Properties of the listing (specification Spec)                          *)
(***************************************************************************)
\* What the state file of a container holds, read as an expiry.
PersistedExpiry(cont) == UnmarshalTime(cont.fs[StateCopyFromPath \o <<"state">>].data)
HasPersisted(cont) == (StateCopyFromPath \o <<"state">>) \in DOMAIN cont.fs

\* The containers a listing in progress has taken from ContainerList: those
\* whose node it holds and those whose state it has still to read.
Taken(rec) ==
    {n.ContainerID : n \in rec.nodes} \cup {e.node.ContainerID : e \in rec.todo}

\* C13: a ListNodes whose ContainerList the backend answers succeeds and
\* returns every labelled container of that answer, whether or not the state
\* of each can be read: each read adds the node of its container and leaves
\* the others as they are; the node of a container whose read fails, or whose
\* state was never written, has the zero expiry, and any other the expiry
\* persisted in its own container.
C13_ListDegradesPerEntry ==
    [][\A p \in Callers :
          /\ (pc[p] = "ListNodes" /\ Steps(p) /\ pc'[p] # "crashed" /\ ~After(p).fault)
             => /\ After(p).err = ""
                /\ Taken(After(p)) = Managed(containers)
          /\ (pc[p] = "ListRead" /\ Steps(p) /\ pc'[p] # "crashed")
             => LET r == After(p) IN
                /\ r.err = ""
                /\ Taken(r) = Taken(cur[p])
                /\ cur[p].nodes \subseteq r.nodes
                /\ Cardinality(r.nodes) = Cardinality(cur[p].nodes) + 1
                /\ pc'[p] = "idle" <=> r.todo = {}
                /\ \E e \in cur[p].todo \ r.todo :
                     LET cont == containers[e.node.ContainerID] IN
                     [e.node EXCEPT !.Expiry =
                         IF e.node.ContainerID \in r.unread \/ ~HasPersisted(cont)
                         THEN ZeroTime ELSE PersistedExpiry(cont)] \in r.nodes
    ]_vars

\* A listing that returned two nodes whose states are both persisted: the read
\* of one failed and it has the zero expiry, the other has its own.
C13_Witness ==
    \E p \in Callers : \E r \in Done(p) :
        /\ r.kind = "ListNodes" /\ r.err = ""
        /\ \E n, m \in r.nodes :
             /\ n.ContainerID \in r.unread /\ n.Expiry = ZeroTime
             /\ HasPersisted(containers[n.ContainerID])
             /\ m.ContainerID \notin r.unread /\ HasPersisted(containers[m.ContainerID])
             /\ m.Expiry = PersistedExpiry(containers[m.ContainerID])

(***************************************************************************)
(* One lifecycle operation whose context the caller may cancel at any of   *)
(* its steps.                                                              *)
(***************************************************************************)
FirstCall(p) == hist[p] = <<>>

NextCancel ==
    \/ \E p \in Callers :
         \/ FirstCall(p) /\ CallDeployNode(p)
         \/ DeployCreate(p) \/ DeployStart(p) \/ DeployWrite(p)
         \/ DeployList(p) \/ DeployRead(p) \/ DeployWait(p)
         \/ CallRemoveNode(p)
         \/ RemoveStop(p) \/ RemoveRemove(p) \/ RemovePoll(p) \/ RemoveRead(p)
         \/ CancelCtx(p)
    \/ \E c \in CIDs : BackendAutoRemove(c)

SpecCancel == Init /\ [][NextCancel]_vars

Alphabet ==
    <<"+", "-", ".", "0", "1", "2", "3", "4", "5", "6", "7", "8", "9",
      "a", "b", "c", "r", "v", "x">>
Rank(ch) == CHOOSE i \in 1..Len(Alphabet) : Alphabet[i] = ch
IsDigit(ch) == ch \in {"0", "1", "2", "3", "4", "5", "6", "7", "8", "9"}
IsIdentChar(ch) == IsDigit(ch) \/ ch \in {"a", "b", "c", "r", "v", "x", "-"}

DropFirst(v, n) == SubSeq(v, n + 1, Len(v))

\* x < y on strings: byte by byte, a proper prefix first.
RECURSIVE StrLess(_, _)
StrLess(x, y) ==
    IF y = <<>> THEN FALSE
    ELSE IF x = <<>> THEN TRUE
    ELSE IF x[1] # y[1] THEN Rank(x[1]) < Rank(y[1])
    ELSE StrLess(Tail(x), Tail(y))

\* The length of the longest initial part of v made of digits.
DigitsLen(v) ==
    CHOOSE n \in 0..Len(v) :
        /\ \A i \in 1..n : IsDigit(v[i])
        /\ n = Len(v) \/ ~IsDigit(v[n + 1])

\* semver.parseInt: a number without leading zeros.
ParseInt(v) ==
    LET n == DigitsLen(v) IN
    IF n = 0 \/ (v[1] = "0" /\ n # 1)
    THEN [ok |-> FALSE, t |-> <<>>, rest |-> <<>>]
    ELSE [ok |-> TRUE, t |-> SubSeq(v, 1, n), rest |-> DropFirst(v, n)]

\* The index of the first ch in v at or after from; Len(v) + 1 when none.
IndexFrom(v, ch, from) ==
    CHOOSE i \in from..(Len(v) + 1) :
        /\ i = Len(v) + 1 \/ v[i] = ch
        /\ \A j \in from..(i - 1) : v[j] # ch

\* The identifiers of a dot-separated string.
RECURSIVE Idents(_)
Idents(v) ==
    LET i == IndexFrom(v, ".", 1) IN
    IF i = Len(v) + 1 THEN <<v>>
    ELSE <<SubSeq(v, 1, i - 1)>> \o Idents(DropFirst(v, i))

AllDigits(v) == \A i \in 1..Len(v) : IsDigit(v[i])
\* semver.isBadNum, semver.isNum
IsBadNum(v) == AllDigits(v) /\ Len(v) > 1 /\ v[1] = "0"
IsNum(v) == AllDigits(v)

\* semver.parsePrerelease: v begins with "-"; the identifiers up to a "+" or
\* the end, none empty, no number with a leading zero.
ParsePrerelease(v) ==
    LET i == IndexFrom(v, "+", 2)
        text == SubSeq(v, 2, i - 1)
        ids == Idents(text)
    IN IF /\ \A k \in 1..Len(text) : IsIdentChar(text[k]) \/ text[k] = "."
          /\ \A k \in 1..Len(ids) : ids[k] # <<>> /\ ~IsBadNum(ids[k])
       THEN [ok |-> TRUE, t |-> SubSeq(v, 1, i - 1), rest |-> DropFirst(v, i - 1)]
       ELSE [ok |-> FALSE, t |-> <<>>, rest |-> <<>>]

\* semver.parseBuild: v begins with "+"; identifiers to the end, none empty.
ParseBuild(v) ==
    LET text == Tail(v)
        ids == Idents(text)
    IN IF /\ \A k \in 1..Len(text) : IsIdentChar(text[k]) \/ text[k] = "."
          /\ \A k \in 1..Len(ids) : ids[k] # <<>>
       THEN [ok |-> TRUE, t |-> v, rest |-> <<>>]
       ELSE [ok |-> FALSE, t |-> <<>>, rest |-> <<>>]

NotParsed == [ok |-> FALSE, major |-> <<>>, minor |-> <<>>, patch |-> <<>>, prerelease |-> <<>>]

\* semver.parse: vMAJOR[.MINOR[.PATCH[-PRERELEASE][+BUILD]]]
Parse(v) ==
    IF v = <<>> \/ v[1] # "v" THEN NotParsed
    ELSE LET ma == ParseInt(Tail(v)) IN
    IF ~ma.ok THEN NotParsed
    ELSE IF ma.rest = <<>>
    THEN [NotParsed EXCEPT !.ok = TRUE, !.major = ma.t, !.minor = <<"0">>, !.patch = <<"0">>]
    ELSE IF ma.rest[1] # "." THEN NotParsed
    ELSE LET mi == ParseInt(Tail(ma.rest)) IN
    IF ~mi.ok THEN NotParsed
    ELSE IF mi.rest = <<>>
    THEN [NotParsed EXCEPT !.ok = TRUE, !.major = ma.t, !.minor = mi.t, !.patch = <<"0">>]
    ELSE IF mi.rest[1] # "." THEN NotParsed
    ELSE LET pa == ParseInt(Tail(mi.rest)) IN
    IF ~pa.ok THEN NotParsed
    ELSE LET pre == IF pa.rest # <<>> /\ pa.rest[1] = "-" THEN ParsePrerelease(pa.rest)
                    ELSE [ok |-> TRUE, t |-> <<>>, rest |-> pa.rest]
         IN
    IF ~pre.ok THEN NotParsed
    ELSE LET bld == IF pre.rest # <<>> /\ pre.rest[1] = "+" THEN ParseBuild(pre.rest)
                    ELSE [ok |-> TRUE, t |-> <<>>, rest |-> pre.rest]
         IN
    IF ~bld.ok \/ bld.rest # <<>> THEN NotParsed
    ELSE [ok |-> TRUE, major |-> ma.t, minor |-> mi.t, patch |-> pa.t, prerelease |-> pre.t]

\* semver.compareInt: of two numbers without leading zeros the longer is the
\* greater, and of two of one length the one greater as a string.
CompareInt(x, y) ==
    IF x = y THEN 0
    ELSE IF Len(x) < Len(y) THEN -1
    ELSE IF Len(x) > Len(y) THEN 1
    ELSE IF StrLess(x, y) THEN -1 ELSE 1

\* semver.comparePrerelease, the loop: identifier by identifier, a number
\* before a word, numbers by value, words as strings, the shorter list first.
RECURSIVE ComparePrereleaseIdents(_, _)
ComparePrereleaseIdents(x, y) ==
    IF x = <<>> \/ y = <<>> THEN (IF x = <<>> THEN -1 ELSE 1)
    ELSE LET x1 == Tail(x)
             y1 == Tail(y)
             nx == IndexFrom(x1, ".", 1) - 1
             ny == IndexFrom(y1, ".", 1) - 1
             dx == SubSeq(x1, 1, nx)
             dy == SubSeq(y1, 1, ny)
         IN IF dx # dy
            THEN IF IsNum(dx) # IsNum(dy) THEN (IF IsNum(dx) THEN -1 ELSE 1)
                 ELSE IF IsNum(dx) /\ Len(dx) < Len(dy) THEN -1
                 ELSE IF IsNum(dx) /\ Len(dx) > Len(dy) THEN 1
                 ELSE IF StrLess(dx, dy) THEN -1 ELSE 1
            ELSE ComparePrereleaseIdents(DropFirst(x1, nx), DropFirst(y1, ny))

\* semver.comparePrerelease: a version without prerelease is the greater.
ComparePrerelease(x, y) ==
    IF x = y THEN 0
    ELSE IF x = <<>> THEN 1
    ELSE IF y = <<>> THEN -1
    ELSE ComparePrereleaseIdents(x, y)

\* semver.Compare: a string that is no version is less than any version and
\* equal to any other such string; versions compare by major, minor, patch
\* and prerelease.
SemverCompareInvalidTies(v, w) ==
    LET pv == Parse(v)
        pw == Parse(w)
    IN IF ~pv.ok \/ ~pw.ok THEN 0
       ELSE IF CompareInt(pv.major, pw.major) # 0 THEN CompareInt(pv.major, pw.major)
       ELSE IF CompareInt(pv.minor, pw.minor) # 0 THEN CompareInt(pv.minor, pw.minor)
       ELSE IF CompareInt(pv.patch, pw.patch) # 0 THEN CompareInt(pv.patch, pw.patch)
       ELSE ComparePrerelease(pv.prerelease, pw.prerelease)

SemverCompare(v, w) ==
    LET pv == Parse(v)
        pw == Parse(w)
    IN IF ~pv.ok /\ ~pw.ok THEN 0
       ELSE IF ~pv.ok THEN -1
       ELSE IF ~pw.ok THEN 1
       ELSE IF CompareInt(pv.major, pw.major) # 0 THEN CompareInt(pv.major, pw.major)
       ELSE IF CompareInt(pv.minor, pw.minor) # 0 THEN CompareInt(pv.minor, pw.minor)
       ELSE IF CompareInt(pv.patch, pw.patch) # 0 THEN CompareInt(pv.patch, pw.patch)
       ELSE ComparePrerelease(pv.prerelease, pw.prerelease)

\* CompareImageDefs(a, b)
CompareImageDefsOneSided(a, b) ==
    LET c == SemverCompare(<<"v">> \o a.Version, <<"v">> \o b.Version) IN
    IF c # 0 THEN c
    ELSE IF a.BuildNo < b.BuildNo THEN -1
    ELSE IF a.BuildNo > b.BuildNo THEN 1
    ELSE IF a.UseCommunityEdition THEN -1
    ELSE IF b.UseCommunityEdition THEN 1
    ELSE IF ~a.UseServerless /\ b.UseServerless THEN -1
    ELSE IF a.UseServerless /\ ~b.UseServerless THEN 1
    ELSE IF ~a.UseColumnar /\ b.UseColumnar THEN -1
    ELSE IF a.UseColumnar /\ ~b.UseColumnar THEN 1
    ELSE 0

CompareImageDefsBuildFirst(a, b) ==
    LET c == SemverCompare(<<"v">> \o a.Version, <<"v">> \o b.Version) IN
    IF a.BuildNo < b.BuildNo THEN -1
    ELSE IF a.BuildNo > b.BuildNo THEN 1
    ELSE IF c # 0 THEN c
    ELSE IF a.UseCommunityEdition /\ ~b.UseCommunityEdition THEN -1
    ELSE IF ~a.UseCommunityEdition /\ b.UseCommunityEdition THEN 1
    ELSE IF ~a.UseServerless /\ b.UseServerless THEN -1
    ELSE IF a.UseServerless /\ ~b.UseServerless THEN 1
    ELSE IF ~a.UseColumnar /\ b.UseColumnar THEN -1
    ELSE IF a.UseColumnar /\ ~b.UseColumnar THEN 1
    ELSE 0

CompareImageDefs(a, b) ==
    LET c == SemverCompare(<<"v">> \o a.Version, <<"v">> \o b.Version) IN
    IF c # 0 THEN c
    ELSE IF a.BuildNo < b.BuildNo THEN -1
    ELSE IF a.BuildNo > b.BuildNo THEN 1
    ELSE IF a.UseCommunityEdition /\ ~b.UseCommunityEdition THEN -1
    ELSE IF ~a.UseCommunityEdition /\ b.UseCommunityEdition THEN 1
    ELSE IF ~a.UseServerless /\ b.UseServerless THEN -1
    ELSE IF a.UseServerless /\ ~b.UseServerless THEN 1
    ELSE IF ~a.UseColumnar /\ b.UseColumnar THEN -1
    ELSE IF a.UseColumnar /\ ~b.UseColumnar THEN 1
    ELSE 0

\* The image definitions compared: versions that differ in patch, in minor
\* (one digit against two), a version without patch, two prereleases (a word,
\* a number), and two strings that are no versions (empty, a word).
V705 == <<"7", ".", "0", ".", "5">>
V710 == <<"7", ".", "1", ".", "0">>
V71 == <<"7", ".", "1">>
V7100 == <<"7", ".", "1", "0", ".", "0">>
V710rc1 == <<"7", ".", "1", ".", "0", "-", "r", "c", "1">>
V710pre1 == <<"7", ".", "1", ".", "0", "-", "1">>
VEmpty == <<>>
VWord == <<"x">>
Versions == {V705, V710, V71, V7100, V710rc1, V710pre1, VEmpty, VWord}
BuildNos == {1, 2}

ImageDefs ==
    [Version : Versions, BuildNo : BuildNos, UseCommunityEdition : BOOLEAN,
     UseServerless : BOOLEAN, UseColumnar : BOOLEAN]

\* A comparison to make: its two arguments, and its result once made.
CompareCall(a, b) == [kind |-> "CompareImageDefs", a |-> a, b |-> b, result |-> 0, err |-> ""]

InitCompare ==
    /\ containers = [c \in CIDs |-> Absent]
    /\ netCfg = DefaultIPAM
    /\ nextCid = 1
    /\ nextUuid = 1
    /\ pc = [p \in {"c1"} |-> "CompareImageDefs"]
    /\ \E a, b \in ImageDefs : cur = [p \in {"c1"} |-> CompareCall(a, b)]
    /\ hist = [p \in {"c1"} |-> <<>>]

DoCompareImageDefs(p) ==
    /\ pc[p] = "CompareImageDefs"
    /\ Return(p, [cur[p] EXCEPT !.result = CompareImageDefs(cur[p].a, cur[p].b)], "")
    /\ UNCHANGED <<containers, netCfg, nextCid, nextUuid>>

NextCompare == \E p \in Callers : DoCompareImageDefs(p)

SpecCompare == InitCompare /\ [][NextCompare]_vars

(***************************************************************************)
(* Properties of the order of image definitions (specification SpecCompare)*)
(***************************************************************************)
Compared == UNION {Done(p) : p \in Callers}

\* The value of a number written in digits.
RECURSIVE Num(_)
Num(d) == IF d = <<>> THEN 0
          ELSE 10 * Num(SubSeq(d, 1, Len(d) - 1)) + (Rank(d[Len(d)]) - Rank("0"))

IsVersion(v) == Parse(<<"v">> \o v).ok
Prerelease(v) == Parse(<<"v">> \o v).prerelease
\* major, minor and patch of a version, as numbers
Release(v) ==
    LET q == Parse(<<"v">> \o v) IN <<Num(q.major), Num(q.minor), Num(q.patch)>>
ReleaseLess(x, y) ==
    \/ x[1] < y[1]
    \/ x[1] = y[1] /\ x[2] < y[2]
    \/ x[1] = y[1] /\ x[2] = y[2] /\ x[3] < y[3]

\* Two version strings of one precedence: the same release and prerelease, or
\* neither is a version.
EqualPrecedence(v, w) ==
    \/ ~IsVersion(v) /\ ~IsVersion(w)
    \/ /\ IsVersion(v) /\ IsVersion(w)
       /\ Release(v) = Release(w) /\ Prerelease(v) = Prerelease(w)

SameFlags(a, b) ==
    /\ a.UseCommunityEdition = b.UseCommunityEdition
    /\ a.UseServerless = b.UseServerless
    /\ a.UseColumnar = b.UseColumnar

\* C15: CompareImageDefs(a, b) is -1, 0 or +1 and the opposite of
\* CompareImageDefs(b, a); a definition compares equal to itself; and the
\* result is 0 only for versions of equal precedence, equal build numbers and
\* identical flags.
C15_Antisymmetric ==
    \A r \in Compared :
        /\ r.result \in {-1, 0, 1}
        /\ r.result = -CompareImageDefs(r.b, r.a)
        /\ CompareImageDefs(r.a, r.a) = 0
        /\ r.result = 0 => /\ EqualPrecedence(r.a.Version, r.b.Version)
                           /\ r.a.BuildNo = r.b.BuildNo
                           /\ SameFlags(r.a, r.b)

C15_Witness ==
    \E r \in Compared :
        /\ r.result = 0 /\ r.a.Version = V71 /\ r.b.Version = V710
        /\ r.a.UseCommunityEdition /\ r.a.UseServerless /\ r.a.UseColumnar

\* C16: CompareImageDefs is transitive: a <= b and b <= c give a <= c, and
\* a < c when one of the two is strict.
C16_Transitive ==
    \A r \in Compared : \A c \in ImageDefs :
        LET ab == r.result
            bc == CompareImageDefs(r.b, c)
            ac == CompareImageDefs(r.a, c)
        IN (ab <= 0 /\ bc <= 0) => (ac <= 0 /\ ((ab < 0 \/ bc < 0) => ac < 0))

C16_Witness ==
    \E r \in Compared : \E c \in ImageDefs :
        /\ r.a.Version = VWord /\ r.b.Version = V710rc1 /\ c.Version = V710
        /\ r.result = -1 /\ CompareImageDefs(r.b, c) = -1 /\ CompareImageDefs(r.a, c) = -1
        /\ r.a.BuildNo > c.BuildNo

\* The comparison of two definitions by build number, then community before
\* enterprise, then non-serverless before serverless, then non-columnar before
\* columnar.
LaterKeys(a, b) ==
    IF a.BuildNo # b.BuildNo THEN (IF a.BuildNo < b.BuildNo THEN -1 ELSE 1)
    ELSE IF a.UseCommunityEdition # b.UseCommunityEdition
         THEN (IF a.UseCommunityEdition THEN -1 ELSE 1)
    ELSE IF a.UseServerless # b.UseServerless THEN (IF b.UseServerless THEN -1 ELSE 1)
    ELSE IF a.UseColumnar # b.UseColumnar THEN (IF b.UseColumnar THEN -1 ELSE 1)
    ELSE 0

\* C17: CompareImageDefs is the lexicographic comparison of (version, build
\* number, community edition, serverless, columnar): the higher release wins
\* whatever the build number and flags, a prerelease sorts before its release,
\* and the later keys decide, in their order, between versions of equal
\* precedence.
C17_Lexicographic ==
    \A r \in Compared :
        LET va == r.a.Version
            vb == r.b.Version
        IN /\ (IsVersion(va) /\ IsVersion(vb) /\ ReleaseLess(Release(va), Release(vb)))
                => r.result = -1
           /\ (IsVersion(va) /\ IsVersion(vb) /\ ReleaseLess(Release(vb), Release(va)))
                => r.result = 1
           /\ (IsVersion(va) /\ IsVersion(vb) /\ Release(va) = Release(vb)
                 /\ Prerelease(va) # <<>> /\ Prerelease(vb) = <<>>)
                => r.result = -1
           /\ EqualPrecedence(va, vb) => r.result = LaterKeys(r.a, r.b)

C17_Witness ==
    \E r \in Compared :
        /\ r.a.Version = V710 /\ r.b.Version = V705
        /\ r.a.BuildNo < r.b.BuildNo
        /\ ~r.a.UseCommunityEdition /\ r.b.UseCommunityEdition
        /\ r.result = 1

(***************************************************************************)
(* Two DeployNode calls at the same time, by two callers; a third caller    *)
(* lists the nodes after both returned.                                     *)
(***************************************************************************)
Deployers == {"c1", "c2"}
Lister == "c3"

InitDeploy2 ==
    /\ \E k \in DOMAIN PreExisting :
         /\ containers = [c \in CIDs |-> IF c = 1 THEN PreExisting[k] ELSE Absent]
         /\ nextCid = IF k = "none" THEN 1 ELSE 2
    /\ netCfg = DefaultIPAM
    /\ nextUuid = 1
    /\ InitCallers(Deployers \cup {Lister})

NextDeploy2 ==
    \/ \E p \in Deployers :
         \/ FirstCall(p) /\ CallDeployNode(p) /\ cur'[p].dur = 1
         \/ DeployCreate(p) \/ DeployStart(p)
         \/ DeployWrite(p) /\ cur'[p].deployTime \in {0, 1}   \* the clock shows 1
         \/ DeployList(p) \/ DeployRead(p) \/ DeployWait(p)
    \/ /\ \A p \in Deployers : Rests(p)
       /\ FirstCall(Lister) /\ CallListNodes(Lister)
    \/ DoListNodes(Lister) \/ ListRead(Lister)

SpecDeploy2 == InitDeploy2 /\ [][NextDeploy2]_vars

\* The DeployNode operations of a caller, returned or running.
Deploys(p) == {r \in Done(p) \cup {cur[p]} : r.kind = "DeployNode"}

\* C18: two DeployNode calls that run at the same time have distinct node
\* identifiers and distinct containers; a call that succeeds returns the node
\* of its own container; and a ListNodes after both lists the node of every
\* call that succeeded.
C18_ConcurrentDeploysAreSeparate ==
    /\ \A p, q \in Callers : \A r \in Deploys(p), t \in Deploys(q) :
         p # q => /\ r.nodeID # t.nodeID
                  /\ (r.containerID # 0 /\ t.containerID # 0)
                        => r.containerID # t.containerID
    /\ \A p \in Callers : \A r \in Done(p) :
         (r.kind = "DeployNode" /\ r.err = "")
         => /\ r.node.ContainerID = r.containerID
            /\ r.node.NodeID = r.nodeID
            /\ containers[r.containerID].labels.node_id = r.nodeID
            /\ \A l \in Done(Lister) :
                 (l.kind = "ListNodes" /\ l.err = "")
                 => \E n \in l.nodes : n.ContainerID = r.containerID /\ n.NodeID = r.nodeID

\* Both calls succeeded, each having created its container before the other
\* took its listing, and the listing after them was taken.
C18_Witness ==
    \E r \in Done("c1"), t \in Done("c2"), l \in Done(Lister) :
        /\ r.kind = "DeployNode" /\ r.err = "" /\ t.kind = "DeployNode" /\ t.err = ""
        /\ \E n \in r.nodes : n.ContainerID = t.containerID
        /\ \E n \in t.nodes : n.ContainerID = r.containerID
        /\ l.kind = "ListNodes" /\ l.err = "" /\ Cardinality(l.nodes) >= 2

(***************************************************************************)
(* Two SetTrafficControl calls at the same time, by two callers.            *)
(***************************************************************************)
InitTraffic2 ==
    /\ \E tool \in BOOLEAN, stale \in StaleRules :
         containers = [c \in CIDs |->
              IF c = 1 THEN [PreExisting["node"] EXCEPT !.tool = tool, !.rules = stale]
              ELSE Absent]
    /\ netCfg \in {DefaultIPAM, <<[DefaultIPAM[1] EXCEPT !.IPRange = "iprange"]>>}
    /\ nextCid = 2
    /\ nextUuid = 1
    /\ InitCallers({"c1", "c2"})

NextTraffic2 ==
    \E p \in Callers :
        \/ FirstCall(p) /\ CallSetTrafficControl(p)
        \/ TcNetworkInspect(p)
        \/ Iptables(p) \/ AptUpdate(p) \/ AptInstall(p) \/ IptablesAgain(p)

SpecTraffic2 == InitTraffic2 /\ [][NextTraffic2]_vars

\* The rules a successful SetTrafficControl(id, blocked) leaves when it runs
\* alone.
RulesAlone(blocked) == IF blocked THEN <<AcceptGateway, DropRange>> ELSE <<>>

\* C19: after two SetTrafficControl calls on one node that ran at the same
\* time and both succeeded, the node's rules are those one of the two calls
\* leaves when it runs alone.
C19_LastWriterWins ==
    \A p, q \in Callers :
        (/\ p # q /\ Rests(p) /\ Rests(q)
         /\ Last(p).kind = "SetTrafficControl" /\ Last(p).err = ""
         /\ Last(q).kind = "SetTrafficControl" /\ Last(q).err = ""
         /\ Last(p).cid = Last(q).cid)
        => \E w \in {p, q} : containers[Last(p).cid].rules = RulesAlone(Last(w).blocked)

(***************************************************************************)
(* Properties of a failed deployment (specification Spec)                  *)
(***************************************************************************)
\* The steps of DeployNode in their order, and the errors each returns.
DeployPcs == <<"DeployCreate", "DeployStart", "DeployWrite", "DeployList", "DeployWait">>
DeployErrors ==
    [DeployCreate |-> {"failed to create container"},
     DeployStart |-> {"failed to start container"},
     DeployWrite |-> {"failed write node state"},
     DeployList |-> {"failed to list nodes", "failed to find newly created container"},
     DeployRead |-> {"failed to find newly created container"},
     DeployWait |-> {"failed to wait for node readiness"}]
\* The state reads of the listing belong to the listing step.
StepOf(step) == IF step = "DeployRead" THEN "DeployList" ELSE step
StepNo(step) == CHOOSE i \in 1..Len(DeployPcs) : DeployPcs[i] = StepOf(step)

\* C20: a step of DeployNode that fails makes DeployNode return that step's
\* error with none of the later steps done, and leaves every container as the
\* backend has it; and no step of DeployNode ever stops or removes a
\* container.
C20_FailedDeployLeavesContainer ==
    [][\A p \in Callers :
          (cur[p].kind = "DeployNode" /\ Steps(p) /\ pc'[p] # "crashed")
          => /\ \A c \in CIDs :
                  Exists(c) => containers'[c].status \in {containers[c].status, "running"}
             /\ pc'[p] = "idle" =>
                  LET r == hist'[p][Len(hist'[p])] IN
                  r.err # "" =>
                      /\ r.err \in DeployErrors[pc[p]]
                      /\ r.log = SubSeq(DeploySteps, 1, StepNo(pc[p]) - 1)
                      /\ containers' = containers
                      /\ pc[p] # "DeployCreate" => Exists(r.containerID)
    ]_vars

C20_Witness ==
    \E p \in Callers : \E r \in Done(p) :
        /\ r.kind = "DeployNode" /\ r.err = "failed to wait for node readiness"
        /\ Len(hist[p]) = 1
        /\ containers[r.containerID].status = "running"
        /\ HasPersisted(containers[r.containerID])

(***************************************************************************)
(* Address resolution and tool installation of SetTrafficControl            *)
(* (specification SpecTraffic)                                              *)
(***************************************************************************)
\* The records of the SetTrafficControl calls: completed or in progress.
TrafficCalls == {r \in Records : r.kind = "SetTrafficControl"}

\* A call got past address resolution when it holds a gateway and a range.
Resolved(r) == r.gatewayIP # "" /\ r.ipRange # ""

\* C21: SetTrafficControl goes on to its commands only when the network has
\* exactly one addressing block, with a gateway and a range; with more than one
\* block (or none, or a gateway or range missing) it runs no command.
C21_ProceedsOnlyWithOneBlock ==
    \A r \in TrafficCalls :
        Resolved(r) => (Len(netCfg) = 1 /\ Gateway # "" /\ NodeRange # "")

\* The call of p ends in this step, after n attempts of its command, without
\* a change to any container: with an error, except that a failure to print
\* the rules is only logged.
EndsAfter(p, n) ==
    /\ Rests(p)' /\ Last(p)'.attempts = n
    /\ (Last(p)'.err = "") = (Last(p)'.phase = "print")
    /\ UNCHANGED containers

\* C22: when the first attempt of a filter command fails (the tool is absent),
\* the package index is refreshed, the tool installed and the command tried
\* once more; when that attempt fails too the call ends there with an error
\* (only a failure to print the rules is not an error); no command is
\* attempted more than twice.
C22_InstallThenRetryOnce ==
    [][\A p \in Callers :
         (cur[p].kind = "SetTrafficControl" /\ <<pc[p], cur[p]>>' # <<pc[p], cur[p]>>)
         => LET c == cur[p].containerID IN
            /\ cur[p].attempts <= 1
            /\ (pc[p] = "Iptables" /\ ~containers[c].tool)
                  => (pc'[p] = "AptUpdate" /\ cur'[p].attempts = 1
                      /\ UNCHANGED containers)
            /\ pc[p] = "AptUpdate"
                  => (\/ pc'[p] = "AptInstall" /\ cur'[p].attempts = 1
                         /\ UNCHANGED containers
                      \/ EndsAfter(p, 1))
            /\ pc[p] = "AptInstall"
                  => (\/ pc'[p] = "IptablesAgain" /\ cur'[p].attempts = 1
                         /\ containers'[c].tool
                      \/ EndsAfter(p, 1))
            /\ pc[p] = "IptablesAgain"
                  => (\/ /\ containers'[c].rules =
                              RunIptables(containers[c].rules, IptablesArgs(cur[p]))
                         /\ \/ pc'[p] = "Iptables" /\ cur'[p].attempts = 0
                            \/ Rests(p)' /\ Last(p)'.err = ""
                      \/ EndsAfter(p, 2))]_vars

C22_Witness ==
    \E p \in Callers :
        /\ Rests(p) /\ Last(p).kind = "SetTrafficControl" /\ Last(p).err = ""
        /\ Last(p).blocked /\ Last(p).installed
        /\ Last(p).log = <<"clear", "drop", "accept", "print">>
        /\ containers[Last(p).cid].tool

(***************************************************************************)
(* Listings and odd containers (specification Spec)                        *)
(***************************************************************************)
\* The identifying labels of a node as a listing reports them.
IdentifyingLabels(n) == <<n.ClusterID, n.NodeID, n.Purpose, n.InitialServerVersion>>

\* C24: every node of every listing ListNodes returned carries the full
\* identifying label set: cluster id, node id, purpose and initial server
\* version are all present.
C24_ListedHaveAllLabels ==
    \A r \in Records : \A n \in r.nodes :
        \A i \in 1..4 : IdentifyingLabels(n)[i] # ""

\* C27: ListNodes, and the DeployNode and RemoveNode calls that list, never
\* crash, whatever containers the backend holds.
C27_ListingNeverCrashes == \A p \in Callers : pc[p] # "crashed"

\* The DeployNode calls made with an empty cluster id.
UnclusteredDeploys == {r \in Records : r.kind = "DeployNode" /\ r.cluster = ""}

\* C29: a DeployNode with an empty cluster id never returns success and never
\* gets to the readiness wait: once its container is created, started and
\* written to and the listing succeeded, it ends with "failed to find newly
\* created container"; no listing of any call holds its container.
C29_EmptyClusterIDNeverDeploys ==
    /\ \A p \in Callers :
         cur[p] \in UnclusteredDeploys => pc[p] # "DeployWait" /\ ~cur[p].listed
    /\ \A p \in Callers : \A r \in Done(p) \cap UnclusteredDeploys :
         /\ r.err # ""
         /\ r.node = NilNode
         /\ r.listed => /\ r.err = "failed to find newly created container"
                        /\ r.log = <<"created", "started", "persisted">>
         /\ (r.log = <<"created", "started", "persisted">> /\ ~r.fault)
               => r.err = "failed to find newly created container"
    /\ \A r \in UnclusteredDeploys : \A l \in Records : \A n \in l.nodes :
         r.containerID # 0 => n.ContainerID # r.containerID

C29_Witness ==
    \E p \in Callers : \E pair \in BackToBack(p) :
        /\ pair[1] \in UnclusteredDeploys
        /\ pair[1].err = "failed to find newly created container"
        /\ containers[pair[1].containerID].status = "running"
        /\ HasPersisted(containers[pair[1].containerID])
        /\ pair[2].kind = "ListNodes" /\ pair[2].err = "" /\ pair[2].nodes # {}

(***************************************************************************)
(* Two callers, each running one operation of any kind, at the same time    *)
(* or one after the other; the backend may hold a node deployed earlier.    *)
(***************************************************************************)
InitOps ==
    /\ \E k \in {"none", "node"} :
         /\ containers = [c \in CIDs |-> IF c = 1 THEN PreExisting[k] ELSE Absent]
         /\ nextCid = IF k = "none" THEN 1 ELSE 2
    /\ netCfg = DefaultIPAM
    /\ nextUuid = 1
    /\ InitCallers({"c1", "c2"})

NextOps ==
    \/ \E p \in Callers :
         \/ FirstCall(p) /\ CallDeployNode(p) /\ cur'[p].cluster = "cl" /\ cur'[p].dur = 1
         \/ DeployCreate(p) \/ DeployStart(p) \/ DeployWrite(p)
         \/ DeployList(p) \/ DeployRead(p) \/ DeployWait(p)
         \/ FirstCall(p) /\ CallRemoveNode(p)
         \/ RemoveStop(p) \/ RemoveRemove(p) \/ RemovePoll(p) \/ RemoveRead(p)
         \/ FirstCall(p) /\ CallListNodes(p)
         \/ DoListNodes(p) \/ ListRead(p)
         \/ FirstCall(p) /\ CallSetTrafficControl(p)
         \/ TcNetworkInspect(p)
         \/ Iptables(p) \/ AptUpdate(p) \/ AptInstall(p) \/ IptablesAgain(p)
    \/ \E c \in CIDs : BackendAutoRemove(c)

SpecOps == InitOps /\ [][NextOps]_vars

\* C23: no step of any operation changes the identifying labels or the
\* persisted expiry of a node whose state is persisted (as long as the node
\* exists), and a step of SetTrafficControl leaves what ListNodes reports as it
\* was.
\* What ListNodes reports of a backend that holds still and answers every
\* call.
Reported(cs) ==
    {NodeWithState(e.node, ReadNodeState(cs[e.node.ContainerID], TRUE)) : e \in Labelled(cs)}

C23_LabelsAndExpiryAreFrozen ==
    [][/\ \A c \in CIDs :
            (Exists(c) /\ HasPersisted(containers[c]) /\ Exists(c)')
            => /\ containers'[c].labels = containers[c].labels
               /\ HasPersisted(containers'[c])
               /\ PersistedExpiry(containers'[c]) = PersistedExpiry(containers[c])
       /\ \A p \in Callers :
            (cur[p].kind = "SetTrafficControl" /\ Steps(p))
            => Reported(containers') = Reported(containers)]_vars

C23_Witness ==
    \E p, q \in Callers : \E d \in Done(p), t \in Done(q) :
        /\ d.kind = "DeployNode" /\ d.err = ""
        /\ t.kind = "SetTrafficControl" /\ t.err = "" /\ t.blocked
        /\ t.cid = d.containerID
        /\ Len(containers[t.cid].rules) = 2
        /\ HasPersisted(containers[t.cid])
        /\ TimeEqual(PersistedExpiry(containers[t.cid]), d.expiry)
        /\ \E n \in Reported(containers) :
             n.ContainerID = t.cid /\ n.NodeID = d.nodeID

\* A node that has not reached Ready: its DeployNode is still running, or
\* ended with an error.
NotYetReady(c) ==
    \/ \E p \in Callers : cur[p].kind = "DeployNode" /\ cur[p].containerID = c
    \/ \E p \in Callers : \E r \in Done(p) :
         r.kind = "DeployNode" /\ r.containerID = c /\ r.err # ""

\* A node whose removal has begun: a RemoveNode of it requested its stop.
Removing(c) ==
    \E r \in Records : r.kind = "RemoveNode" /\ r.containerID = c /\ r.log # <<>>

\* C25: the filter rules of a node change only between Ready and Removing: no
\* step changes the rules of a node that has not reached Ready or whose
\* removal has begun.
C25_RulesChangeOnlyWhenReady ==
    [][\A c \in CIDs :
         (Exists(c) /\ Exists(c)' /\ containers'[c].rules # containers[c].rules)
         => (~NotYetReady(c) /\ ~Removing(c))]_vars

(***************************************************************************)
(* The wait of RemoveNode, when its listings succeed: a RemoveNode that     *)
(* was called goes on step by step, and the backend removes in the end a    *)
(* stopped container it is to remove automatically.                         *)
(***************************************************************************)
\* The steps of a round of the wait whose listing succeeds.
PollListed(p) == RemovePoll(p) /\ pc'[p] # "crashed" /\ ~(Rests(p)' /\ Last(p)'.fault)
ReadListedOk(p) == RemoveRead(p) /\ pc'[p] # "crashed"

RemoveSteps ==
    \E p \in Callers : RemoveStop(p) \/ RemoveRemove(p) \/ PollListed(p) \/ ReadListedOk(p)
BackendSteps == \E c \in CIDs : BackendAutoRemove(c)

NextRemoveLive ==
    \/ \E p \in Callers : CallRemoveNode(p)
    \/ RemoveSteps
    \/ BackendSteps

SpecRemoveLive ==
    Init /\ [][NextRemoveLive]_vars /\ WF_vars(RemoveSteps) /\ WF_vars(BackendSteps)

\* The container RemoveNode waits for is gone, or the backend is about to
\* remove it.
RemovalUnderWay(p) ==
    /\ pc[p] = "RemovePoll"
    /\ cur[p].containerID \in (CIDs \ ContainerList(containers)) \cup Vanishing(containers)

RemovedOk(p) == Rests(p) /\ Last(p).kind = "RemoveNode" /\ Last(p).err = ""

\* C26: once RemoveNode has requested stop and removal and the backend removes
\* the container, RemoveNode returns success; a round of the wait that finds
\* the container still listed does not return success but polls again.
C26_RemoveReturnsOnceGone ==
    /\ RemovalUnderWay("c1") ~> RemovedOk("c1")
    /\ [][\A p \in Callers :
            /\ (pc[p] = "RemovePoll" /\ Steps(p) /\ cur[p].containerID \in Managed(containers))
               => pc'[p] = "RemoveRead"
            /\ (pc[p] = "RemoveRead" /\ Steps(p) /\ cur[p].containerID \in Taken(cur[p]))
               => \/ pc'[p] = "RemoveRead"
                  \/ pc'[p] = "RemovePoll" /\ cur'[p].waited]_vars

C26_Witness ==
    /\ RemovedOk("c1") /\ Last("c1").waited
    /\ Last("c1").cid \in Last("c1").managedAtStart
    /\ ~Exists(Last("c1").cid)

(***************************************************************************)
(* The control-plane client (capellacontrol.Controller): doBasicReq,        *)
(* doRetriableReq and updateJwtToken. A call is a stack of doRetriableReq   *)
(* loops: the request of doBasicReq at the bottom, above it the session     *)
(* requests of the updateJwtToken calls in progress.                        *)
(***************************************************************************)
\* The most requests the server is sent within one call.
MaxAttempts == 12

\* maxRetries of doBasicReq, with and without allowRetries, and of
\* updateJwtToken.
DefaultMaxRetries == 10
NoRetries == 0
SessionMaxRetries == 3

\* What doReq makes of the server's answer: success, an error body named
\* Unauthorized, any other failure (another status, a transport error, an
\* undecodable body), or the context ending.
Responses == {"ok", "Unauthorized", "failure", "cancelled"}

\* The client and the call it runs. Tokens are numbered as the server issues
\* them; 0 is the empty jwtToken.
RestClient(auth, jwtToken) ==
    [kind |-> "none", auth |-> auth, jwtToken |-> jwtToken, issued |-> jwtToken,
     allowRetries |-> FALSE, stack |-> <<>>,
     \* sends: the requests sent by the call; sessions: those to /sessions
     sends |-> 0, sessions |-> 0,
     \* failures: the attempts of the request of doBasicReq that ended in a
     \* failure other than Unauthorized and cancellation
     failures |-> 0,
     \* the answer to the last request sent, the token the request of
     \* doBasicReq carried last, and the one it carried when last answered
     \* Unauthorized
     resp |-> "", carried |-> 0, rejected |-> 0,
     \* allRejected: so far the server answered every attempt of the request
     \* Unauthorized and granted every session request
     allRejected |-> TRUE,
     err |-> ""]

\* One doRetriableReq loop: its makeReq, maxRetries and retryNum, and where
\* its caller goes on.
Frame(fn, maxRetries, from) ==
    [fn |-> fn, maxRetries |-> maxRetries, retryNum |-> 0, from |-> from]

Top(rec) == rec.stack[Len(rec.stack)]

\* updateJwtToken: a doRetriableReq of POST /sessions with basic auth.
updateJwtToken(rec, from) ==
    [rec EXCEPT !.stack = Append(@, Frame("sessions", SessionMaxRetries, from))]

\* auth.jwtToken = resp.Jwt, and back in the caller of updateJwtToken: the
\* request is built with the token, or the loop continues (retryNum++).
TokenUpdated(rec) ==
    LET depth == Len(rec.stack)
        back == SubSeq(rec.stack, 1, depth - 1)
    IN [rec EXCEPT !.jwtToken = rec.issued + 1, !.issued = @ + 1,
                   !.stack = IF Top(rec).from = "reauth"
                             THEN [back EXCEPT ![depth - 1].retryNum = @ + 1]
                             ELSE back]

\* An Unauthorized answer leads to a token refresh with basic credentials.
ReauthenticatesAnyCredentials(auth, resp) == resp = "Unauthorized"
Reauthenticates(auth, resp) == resp = "Unauthorized" /\ auth = "basic"

\* The context is done (cancelled, or its deadline exceeded): doRetriableReq
\* returns the error at once.
GivesUpNever(resp) == FALSE
GivesUp(resp) == resp = "cancelled"

\* if retryNum == maxRetries { return err }
Exhausted(retryNum, maxRetries) == retryNum = maxRetries

\* time.Sleep; continue
Continue(rec) == [rec EXCEPT !.stack[Len(rec.stack)].retryNum = @ + 1]

\* The error doBasicReq returns when a loop of the stack gives up: that of the
\* request itself, or the wrapping the loops below put around it.
ErrorOf(rec, resp) ==
    IF Len(rec.stack) = 1
    THEN CASE resp = "cancelled" -> "context canceled"
           [] resp = "Unauthorized" -> "Unauthorized"
           [] OTHER -> "request failed"
    ELSE IF rec.stack[2].from = "makeReq" THEN "failed to build request"
    ELSE "failed to update JWT token after failed request"

doBasicReq(p) ==
    /\ CanCall(p)
    /\ \E allowRetries \in BOOLEAN :
         LET maxRetries == IF allowRetries THEN DefaultMaxRetries ELSE NoRetries
         IN Goto(p, [cur[p] EXCEPT !.kind = "doBasicReq", !.allowRetries = allowRetries,
                                   !.stack = <<Frame("request", maxRetries, "caller")>>],
                 "makeReq")
    /\ UNCHANGED <<containers, netCfg, nextCid, nextUuid>>

\* makeReq of the loop on top: the request of doBasicReq needs a token with
\* basic credentials and fetches one when it holds none.
makeReq(p) ==
    /\ NoCrash /\ pc[p] = "makeReq"
    /\ LET rec == cur[p] IN
       IF Top(rec).fn = "request" /\ rec.auth = "basic" /\ rec.jwtToken = 0
       THEN Goto(p, updateJwtToken(rec, "makeReq"), "makeReq")
       ELSE Goto(p, rec, "doReq")
    /\ UNCHANGED <<containers, netCfg, nextCid, nextUuid>>

\* doReq of the loop on top, and what doRetriableReq does with its result.
doReq(p) ==
    /\ NoCrash /\ pc[p] = "doReq"
    /\ cur[p].sends < MaxAttempts
    /\ \E resp \in Responses :
         LET f == Top(cur[p])
             own == f.fn = "request"
             token == IF cur[p].auth = "basic" THEN cur[p].jwtToken ELSE 0
             rec == [cur[p] EXCEPT
                        !.sends = @ + 1,
                        !.sessions = IF own THEN @ ELSE @ + 1,
                        !.resp = resp,
                        !.carried = IF own THEN token ELSE @,
                        !.rejected = IF own /\ resp = "Unauthorized" THEN token ELSE @,
                        !.failures = IF own /\ resp = "failure" THEN @ + 1 ELSE @,
                        !.allRejected = @ /\ resp = (IF own THEN "Unauthorized" ELSE "ok")]
         IN CASE resp = "ok" ->
                   IF own THEN Return(p, rec, "")
                   ELSE Goto(p, TokenUpdated(rec),
                             IF f.from = "makeReq" THEN "doReq" ELSE "makeReq")
              [] GivesUp(resp) -> Return(p, rec, ErrorOf(rec, resp))
              [] resp \notin {"ok", "cancelled"} /\ Reauthenticates(rec.auth, resp) ->
                   Goto(p, updateJwtToken(rec, "reauth"), "makeReq")
              [] OTHER ->
                   IF Exhausted(f.retryNum, f.maxRetries)
                   THEN Return(p, rec, ErrorOf(rec, resp))
                   ELSE Goto(p, Continue(rec), "makeReq")
    /\ UNCHANGED <<containers, netCfg, nextCid, nextUuid>>

\* A client with basic credentials (holding no token yet, or one from an
\* earlier call) or with token credentials.
InitRest ==
    /\ containers = [c \in CIDs |-> Absent]
    /\ netCfg = DefaultIPAM
    /\ nextCid = 1
    /\ nextUuid = 1
    /\ pc = [p \in {"c1"} |-> "idle"]
    /\ hist = [p \in {"c1"} |-> <<>>]
    /\ \E auth \in {"basic", "token"}, jwtToken \in {0, 1} :
         /\ auth = "token" => jwtToken = 0
         /\ cur = [p \in {"c1"} |-> RestClient(auth, jwtToken)]

NextRest ==
    \E p \in Callers :
        \/ FirstCall(p) /\ doBasicReq(p)
        \/ makeReq(p)
        \/ doReq(p)

SpecRest == InitRest /\ [][NextRest]_vars

(***************************************************************************)
(* Properties of the control-plane client (specification SpecRest)         *)
(***************************************************************************)
\* The calls of doBasicReq, completed or in progress, and the maxRetries of
\* the doRetriableReq each of them runs.
RestCalls == {r \in Records : r.kind = "doBasicReq"}
MaxRetriesOf(r) == r.stack[1].maxRetries

\* C30: a doRetriableReq with maxRetries = N makes at most N + 1 attempts that
\* end in a failure other than Unauthorized and cancellation, whatever
\* Unauthorized answers come in between; with N = 0 the first such failure
\* ends the call.
C30_AtMostNPlusOneFailedAttempts ==
    /\ \A r \in RestCalls : r.failures <= MaxRetriesOf(r) + 1
    /\ \A p \in Callers :
         (cur[p] \in RestCalls /\ MaxRetriesOf(cur[p]) = 0) => cur[p].failures = 0

\* In this step the request of doBasicReq itself is sent and answered.
RequestAnswered(p, resp) ==
    /\ pc[p] = "doReq" /\ Steps(p)
    /\ Len(cur[p].stack) = 1
    /\ After(p).resp = resp

\* C28: with basic credentials an Unauthorized answer to the request starts a
\* token refresh, nothing else being sent; when the refresh succeeds the
\* request is built and sent again, and every request sent after a refresh
\* carries the token held then, which is not the one that was rejected. With
\* token credentials no session request is ever sent, and an Unauthorized
\* answer does what any other failure does: it ends the call when retryNum is
\* maxRetries and leads to the next attempt otherwise.
C28_UnauthorizedRefreshesBasicOnly ==
    [][\A p \in Callers :
         LET rec == cur[p] IN
         /\ (RequestAnswered(p, "Unauthorized") /\ rec.auth = "basic")
               => /\ pc'[p] = "makeReq"
                  /\ cur'[p].stack = Append(rec.stack, Frame("sessions", SessionMaxRetries, "reauth"))
                  /\ cur'[p].jwtToken = rec.jwtToken
         /\ (/\ pc[p] = "doReq" /\ Steps(p) /\ Len(rec.stack) = 2
             /\ Top(rec).from = "reauth" /\ After(p).resp = "ok")
               => /\ pc'[p] = "makeReq"
                  /\ cur'[p].stack = <<[rec.stack[1] EXCEPT !.retryNum = @ + 1]>>
                  /\ cur'[p].jwtToken > rec.issued
                  /\ cur'[p].jwtToken # rec.rejected
         /\ (/\ pc[p] = "makeReq" /\ Steps(p) /\ Len(rec.stack) = 1
             /\ rec.auth = "basic" /\ rec.jwtToken # 0)
               => (pc'[p] = "doReq" /\ cur'[p] = rec)
         /\ (/\ pc[p] = "doReq" /\ Steps(p) /\ Len(rec.stack) = 1 /\ rec.auth = "basic")
               => /\ After(p).carried = rec.jwtToken
                  /\ rec.jwtToken \notin {0, rec.rejected}
         /\ rec.auth = "token" => rec.sessions = 0 /\ rec.issued = 0
         /\ (RequestAnswered(p, "Unauthorized") /\ rec.auth = "token")
               => IF rec.stack[1].retryNum = rec.stack[1].maxRetries
                  THEN Rests(p)' /\ Last(p)'.err = "Unauthorized" /\ Last(p)'.sessions = 0
                  ELSE /\ pc'[p] = "makeReq"
                       /\ cur'[p].stack = <<[rec.stack[1] EXCEPT !.retryNum = @ + 1]>>
                       /\ cur'[p].sessions = 0]_vars

C28_Witness ==
    \E p \in Callers : \E r \in Done(p) :
        /\ r.kind = "doBasicReq" /\ r.auth = "basic" /\ r.err = ""
        /\ r.rejected # 0 /\ r.sessions = 1
        /\ r.carried = r.jwtToken /\ r.carried # r.rejected
        /\ r.sends = 3

(***************************************************************************)
(* Failure of the address resolution of SetTrafficControl                   *)
(* (specification SpecTraffic)                                              *)
(***************************************************************************)
\* The errors of the address resolution: of the network inspection, of an
\* empty list of addressing blocks, of a missing gateway or range.
ResolutionErrors ==
    {"failed to inspect network",
     "more than one ipam config, cannot identify node subnet",
     "failed to identify subnet or gateway ip"}

\* C34: a SetTrafficControl that fails in its address resolution has executed
\* no command in the node, and the node's rules are what they were when it was
\* called: neither the call nor the resolution step changes any container,
\* and a call that ended with a resolution error has attempted and applied
\* nothing.
C34_FailedResolutionChangesNothing ==
    [][/\ \A p \in Callers :
            /\ (pc[p] = "idle" /\ pc'[p] = "NetworkInspect") => UNCHANGED containers
            /\ (pc[p] = "NetworkInspect" /\ Steps(p))
                  => /\ UNCHANGED containers
                     /\ Rests(p)' => Last(p)'.err \in ResolutionErrors
       /\ \A r \in TrafficCalls' :
            r.err \in ResolutionErrors
               => (r.log = <<>> /\ r.attempts = 0 /\ ~r.installed /\ r.phase = "")]_vars

C34_Witness ==
    \E p \in Callers :
        /\ Rests(p) /\ Last(p).kind = "SetTrafficControl"
        /\ Last(p).err = "failed to identify subnet or gateway ip"
        /\ containers[Last(p).cid].status = "running"
        /\ containers[Last(p).cid].rules \in StaleRules \ {<<>>}

\* The refresh-and-retry rounds a call has completed when every answer to its
\* request was Unauthorized: each adds one to the retryNum of its loop.
Rounds(r) == r.stack[1].retryNum

\* C31: a call with basic credentials whose every attempt is answered
\* Unauthorized, every token refresh succeeding, runs a bounded number of
\* refresh-and-retry rounds: no more than the attempts its maxRetries allows.
C31_RefreshRoundsAreBounded ==
    \A r \in RestCalls :
        (r.auth = "basic" /\ r.allRejected) => Rounds(r) <= MaxRetriesOf(r) + 1

\* The updateJwtToken calls in progress within a call: each but the first was
\* started from the request loop of the one below it.
Refreshes(r) == {i \in 1..Len(r.stack) : r.stack[i].fn = "sessions"}

\* C32: a token refresh whose session request is answered Unauthorized ends
\* with an error: it does not start refresh upon refresh from inside its own
\* loop. No more refreshes are ever in progress at once than the attempts the
\* loop of updateJwtToken allows.
C32_RefreshDoesNotNest ==
    \A r \in RestCalls : Cardinality(Refreshes(r)) <= SessionMaxRetries + 1

\* C33: an attempt that fails because the context is done ends the call in
\* that very step, whatever loop made the attempt and whatever its maxRetries
\* and retryNum: the error is returned (by the loop of the request itself as
\* it is), and nothing was sent, no token fetched, no loop continued after it.
C33_CancellationReturnsAtOnce ==
    [][\A p \in Callers :
         (pc[p] = "doReq" /\ Steps(p) /\ After(p).resp = "cancelled")
         => /\ Rests(p)' /\ Last(p)'.err # ""
            /\ Len(cur[p].stack) = 1 => Last(p)'.err = "context canceled"
            /\ Last(p)'.sends = cur[p].sends + 1
            /\ Last(p)'.stack = cur[p].stack
            /\ Last(p)'.issued = cur[p].issued
            /\ Last(p)'.jwtToken = cur[p].jwtToken]_vars

C33_Witness ==
    \E p \in Callers : \E r \in Done(p) :
        /\ r.kind = "doBasicReq" /\ r.resp = "cancelled"
        /\ r.err = "context canceled"
        /\ MaxRetriesOf(r) = DefaultMaxRetries
        /\ r.stack[1].retryNum = 1 /\ r.failures = 1 /\ r.sends = 2

====
